---- MODULE Spec2Model ----
(***************************************************************************)
(* Model of the live text-to-speech starter.                               *)
(*                                                                         *)
(*   SpecRelay   one session of the SDK relay (src/unnamed/part_002): the  *)
(*               connection handler, the six upstream event handlers and   *)
(*               the three downstream socket handlers.                     *)
(*                                                                         *)
(*   SpecStarter the same session in the starter variant of the relay      *)
(*               (src/frontend/main.js, lines 719-1186), whose Metadata    *)
(*               and Speak handlers are left to the reader.                *)
(*   SpecProxy   one session of the pass-through proxy (src/server.js);    *)
(*               SpecProxyLive adds what the two sockets guarantee.        *)
(*   SpecShutdown, SpecProxyShutdown                                       *)
(*               the server process of the relay and of the proxy: the     *)
(*               client sockets it holds and the shutdown signals.         *)
(*                                                                         *)
(*   SpecClient  the browser client (src/frontend/main.js, lines 1-717):     *)
(*               the two buttons, the cancel timer and the events of every *)
(*               WebSocket the client has created.                         *)
(*               SpecClientLive adds that a timer that was set fires.      *)
(*   SpecQueue   the client with the buttons of its queue list.            *)
(*   SpecWav     one generation of the client fed with audio chunks of     *)
(*               realistic sizes: the assembly of the WAV object.          *)
(*                                                                         *)
(* Handlers run to completion (one JavaScript event-loop turn each), so    *)
(* each handler is one action.  The calls a handler makes on the two       *)
(* sockets are recorded, in order, in downCalls (calls on clientWs) and    *)
(* upCalls (calls on deepgramConnection); history keeps, per handler run,  *)
(* what it saw and did.                                                    *)
(***************************************************************************)
EXTENDS Integers, Sequences, FiniteSets, TLC

VARIABLES
    \* ---- SDK relay session (src/unnamed/part_002) ----
    phase,               \* "accepted" | "relaying" | "rejected"
    activeConnections,   \* the Set of tracked client sockets
    deepgramConnection,  \* the handler's variable: "null" | "conn"
    isConnectionReady,   \* the handler's ready flag
    clientReadyState,    \* clientWs.readyState: "OPEN" | "CLOSING" | "CLOSED"
    clientErrored,       \* clientWs has emitted 'error'
    dgState,             \* the upstream connection itself:
                         \* "none" | "connecting" | "open" | "failed" | "closed"
    clearSupported,      \* typeof deepgramConnection.clear === 'function'
    upCalls,             \* calls made on deepgramConnection, in order
    downCalls,           \* calls made on clientWs, in order
    history              \* the handlers run so far, in order: for each its
                         \* event, what it saw and the calls it made

VARIABLES
    \* ---- browser client (src/frontend/main.js) ----
    websocket,           \* state.websocket: 0 (null) or a socket
    isConnecting,        \* state.isConnecting
    isGenerating,        \* state.isGenerating
    currentGeneration,   \* state.currentGeneration
    queue,               \* state.queue, newest first
    nextId,              \* state.nextId
    currentlyPlayingId,  \* state.currentlyPlayingId: 0 (null) or an item id
    generateBtnDisabled, \* generateBtn.disabled
    cancelBtnHidden,     \* cancelBtn.hidden
    status,              \* the status banner: what showStatus was last given
    sockets,             \* the WebSockets created so far: readyState, what was
                         \* sent on them, whether they delivered Open / failed
    timers,              \* pending setTimeout callbacks of handleCancel
    generations,         \* per generation started: "generating", "complete",
                         \* "error" or "cancelled"
    received,            \* audio chunks handled since currentGeneration was
                         \* last replaced, in order of arrival, each with the
                         \* socket that delivered it
    assembled,           \* per queue item id: the generation it was made for,
                         \* the socket its Flushed arrived on, and the chunks
                         \* received for it, as of its Flushed
    events,              \* number of events the page has handled
    lastEvent            \* the event handled last, and what the page was
                         \* doing when it arrived

VARIABLES
    \* ---- pass-through proxy session (src/server.js) ----
    deepgramWs,          \* deepgramWs.readyState: "none" | "CONNECTING" | "OPEN"
                         \* | "CLOSING" | "CLOSED"
    \* ---- server process (signal handlers, both servers) ----
    wsState,             \* per client socket accepted by the server: "none",
                         \* "OPEN", "CLOSING" or "CLOSED"
    listening,           \* the HTTP server: "listening" | "closing" | "closed"
    closeCallbacks,      \* callbacks given to server.close(), not yet run
    exitTimers,          \* pending setTimeout callbacks of gracefulShutdown
    exitCode,            \* "running", or the code process.exit was given: "0", "1"
    signals,             \* the shutdown signals delivered, in order
    shutdowns            \* per signal handled: the sockets registered when it
                         \* arrived and the sockets close() was called on

serverVars == <<deepgramWs, wsState, listening, closeCallbacks, exitTimers, exitCode,
                signals, shutdowns>>

clientVars == <<websocket, isConnecting, isGenerating, currentGeneration, queue, nextId,
                currentlyPlayingId, generateBtnDisabled, cancelBtnHidden, status,
                sockets, timers, generations, received, assembled, events,
                lastEvent>>

relayVars == <<phase, activeConnections, deepgramConnection, isConnectionReady,
               clientReadyState, clientErrored, dgState, clearSupported,
               upCalls, downCalls, history>>

vars == <<relayVars, clientVars, serverVars>>

----------------------------------------------------------------------------
\* Bounds of the model.

\* Handlers run in one relay session after the connection handler.
MaxSteps == 4

\* Generations (and so WebSockets) one client run starts.
MaxGens == 3

\* Audio chunks collected for one generation of the client.
MaxChunks == 2

\* Items the client's queue receives in one run.
MaxQueue == 2

\* Audio chunks of one generation in the WAV assembly runs.
MaxWavChunks == 3

\* Events (clicks, timer and socket events) the page handles in one run.
MaxEvents == 9

----------------------------------------------------------------------------
\* Values.

\* The client socket of the session.
ClientWs == "clientWs"

\* A JavaScript value of a message field: undefined, a string or a number.
Undefined == [t |-> "undefined", v |-> ""]
Str(s) == [t |-> "string", v |-> s]
Num(s) == [t |-> "number", v |-> s]

\* JavaScript truthiness of such a value (!x is ~Truthy(x)).
Truthy(x) ==
    CASE x.t = "undefined" -> FALSE
      [] x.t = "string" -> x.v # ""
      [] x.t = "number" -> x.v # "0"

\* The raw client messages: what JSON.parse(message.toString()) makes of them.
\* parse = "SyntaxError": JSON.parse throws with `reason`;
\* parse = "null": the JSON text null; parse = "object": an object with the
\* given type ("<undefined>" when absent) and text fields.
RawObject(type, text) == [parse |-> "object", type |-> type, text |-> text, reason |-> ""]
RawNull == [parse |-> "null", type |-> "<undefined>", text |-> Undefined, reason |-> ""]
RawMalformed(reason) ==
    [parse |-> "SyntaxError", type |-> "<undefined>", text |-> Undefined, reason |-> reason]
NoRaw == [parse |-> "-", type |-> "-", text |-> Undefined, reason |-> ""]

SpeakTexts == {Undefined, Str(""), Str("hello"), Str("world"), Num("7")}

RawMessages ==
    {RawObject("Speak", t) : t \in SpeakTexts}
    \cup {RawObject(ty, Undefined) : ty \in {"Flush", "Clear", "Close", "Ping", "<undefined>"}}
    \cup {RawNull, RawMalformed("Unexpected token h in JSON at position 0"),
          RawMalformed("Unexpected end of JSON input")}

\* Calls on clientWs.  rs is clientWs.readyState when the call is made: the ws
\* library transmits a send only when it is "OPEN".  For a text message, type
\* is its type field; etype, code and body are the type, code and message of
\* its error object (all "" when the message has no error object; body is
\* also the message field of Open, Flushed and Close); props are its other
\* top-level fields.
SendJson(type, etype, code, body, props, rs) ==
    [op |-> "send", binary |-> FALSE, type |-> type, etype |-> etype, code |-> code,
     body |-> body, props |-> props, ccode |-> 0, rs |-> rs]
SendBinary(chunk, rs) ==
    [op |-> "send", binary |-> TRUE, type |-> "", etype |-> "", code |-> "",
     body |-> chunk, props |-> {}, ccode |-> 0, rs |-> rs]
CloseCall(ccode, reason, rs) ==
    [op |-> "close", binary |-> FALSE, type |-> "", etype |-> "", code |-> "",
     body |-> reason, props |-> {}, ccode |-> ccode, rs |-> rs]

\* Calls on deepgramConnection.
UpCall(op, text) == [op |-> op, text |-> text]

\* What a handler did: its calls on clientWs and on deepgramConnection, and
\* the order in which it called the two ("down" for clientWs, "up" for
\* deepgramConnection); the calls on clientWs come first unless said otherwise.
Effects(down, up) ==
    [down |-> down, up |-> up,
     order |-> [i \in 1..Len(down) |-> "down"] \o [i \in 1..Len(up) |-> "up"]]

----------------------------------------------------------------------------
\* Inputs the environment hands to the relay.

\* Errors deepgram.speak.live() can throw: the message, and which of the
\* substrings the catch block looks for it includes.
ThrownErrors ==
    {[message |-> Str("Unknown model"), has |-> {"model"}],
     [message |-> Str("unauthorized"), has |-> {"auth"}],
     [message |-> Str("Invalid API key"), has |-> {"key"}],
     [message |-> Str("socket hang up"), has |-> {}],
     [message |-> Undefined, has |-> {}]}

\* Errors the upstream connection reports through LiveTTSEvents.Error.
UpstreamErrors == {Str("Bad Request"), Str(""), Undefined}

\* Payloads of LiveTTSEvents.Metadata: the four contract fields and a
\* provider-internal one; the second lacks model_uuid.
MetadataEvents ==
    {[request_id |-> "r1", model_name |-> "aura", model_version |-> "v1",
      model_uuid |-> "u1", transaction_key |-> "k"],
     [request_id |-> "r2", model_name |-> "aura", model_version |-> "v2"]}

\* Payloads of LiveTTSEvents.Unhandled.
UnhandledEvents ==
    {[type |-> "Cleared", sequence_id |-> "0"], [type |-> "Cleared", sequence_id |-> "3"],
     [type |-> "Warning", sequence_id |-> "1"]}

\* Audio buffers of LiveTTSEvents.Audio.
AudioFrames == {"pcm1", "pcm2"}

----------------------------------------------------------------------------
\* The connection handler's catch block (deepgram.speak.live threw).

CatchErrorCode(error) == IF "model" \in error.has THEN "MODEL_NOT_FOUND" ELSE "CONNECTION_FAILED"

CatchErrorMessage(error) ==
    IF "model" \in error.has THEN "Invalid model. Please check the model name."
    ELSE IF "auth" \in error.has \/ "key" \in error.has
         THEN "Authentication failed. Please check your API key."
         ELSE "Failed to establish connection to Deepgram"

CatchHint(error) ==
    IF CatchErrorCode(error) = "CONNECTION_FAILED"
    THEN "Verify DEEPGRAM_API_KEY is set correctly in .env"
    ELSE "Check available models at https://developers.deepgram.com/docs/tts-models"

ConnectionCatch(error, rs) ==
    Effects(<<SendJson("Error", "ConnectionError", CatchErrorCode(error),
                       CatchErrorMessage(error), {<<"hint", CatchHint(error)>>}, rs),
              CloseCall(1011, "Deepgram connection failed", rs)>>,
            <<>>)

----------------------------------------------------------------------------
\* The upstream event handlers.

OnOpen(rs) ==
    Effects(<<SendJson("Open", "", "", "Connected to Deepgram TTS", {}, rs)>>, <<>>)

MetadataFields == {"request_id", "model_name", "model_version", "model_uuid"}

\* JSON.stringify leaves out a field whose value is undefined.
OnMetadata(data, rs) ==
    Effects(<<SendJson("Metadata", "", "", "",
                       {<<f, data[f]>> : f \in MetadataFields \cap DOMAIN data}, rs)>>,
            <<>>)

\* OnAudio as it would be with the audio wrapped in a structured message.
OnAudioWrapped(audioData, rs) ==
    IF rs = "OPEN" THEN Effects(<<SendJson("Audio", "", "", audioData, {}, rs)>>, <<>>)
    ELSE Effects(<<>>, <<>>)

OnAudio(audioData, rs) ==
    IF rs = "OPEN" THEN Effects(<<SendBinary(audioData, rs)>>, <<>>)
    ELSE Effects(<<>>, <<>>)

OnUnhandled(data, rs) ==
    IF data.type = "Cleared"
    THEN Effects(<<SendJson("Cleared", "", "", "", {<<"sequence_id", data.sequence_id>>}, rs)>>,
                 <<>>)
    ELSE Effects(<<>>, <<>>)

OnFlushed(rs) ==
    Effects(<<SendJson("Flushed", "", "", "All audio chunks sent", {}, rs)>>, <<>>)

OnClose(rs) ==
    Effects(<<SendJson("Close", "", "", "Deepgram connection closed", {}, rs)>>, <<>>)

\* error.message || 'Unknown error occurred'
ErrorText(message) == IF Truthy(message) THEN message.v ELSE "Unknown error occurred"

\* OnError as it would be with the socket closed before the message is sent.
OnErrorCloseFirst(message, rs) ==
    Effects(<<CloseCall(1011, "Server error", rs),
              SendJson("Error", "TTS_ERROR", "AUDIO_GENERATION_ERROR", ErrorText(message), {}, rs)>>,
            <<>>)

OnError(message, rs) ==
    Effects(<<SendJson("Error", "TTS_ERROR", "AUDIO_GENERATION_ERROR", ErrorText(message), {}, rs),
              CloseCall(1011, "Server error", rs)>>,
            <<>>)

----------------------------------------------------------------------------
\* The client message handler.

\* The catch block of the message handler: whatever was thrown inside the
\* try is reported as a parsing error.
\* MessageCatch as it would be if the reply had a fixed text.
MessageCatchFixedText(reason, rs) ==
    Effects(<<SendJson("Error", "PARSING_ERROR", "INVALID_TEXT",
                       "Invalid JSON", {<<"prefix", "Failed to parse message: ">>}, rs)>>,
            <<>>)

\* MessageCatch as it would be if the catch block also closed the socket.
MessageCatchCloses(reason, rs) ==
    Effects(<<SendJson("Error", "PARSING_ERROR", "INVALID_TEXT",
                       reason, {<<"prefix", "Failed to parse message: ">>}, rs),
              CloseCall(1011, "Server error", rs)>>,
            <<>>)

MessageCatch(reason, rs) ==
    Effects(<<SendJson("Error", "PARSING_ERROR", "INVALID_TEXT",
                       reason, {<<"prefix", "Failed to parse message: ">>}, rs)>>,
            <<>>)

\* Calling a method on deepgramConnection when the variable is null throws a
\* TypeError inside the try.
NullCall == "Cannot read properties of null"

\* SpeakBranch as it would be without the readiness check.
SpeakBranchNoReadyCheck(data, ready, conn, rs) ==
    IF ~Truthy(data.text) \/ data.text.t # "string"
    THEN Effects(<<SendJson("Error", "VALIDATION_ERROR", "INVALID_TEXT",
                            "Text field is required and must be a non-empty string", {}, rs)>>,
                 <<>>)
    ELSE IF conn = "null" THEN MessageCatch(NullCall, rs)
    ELSE Effects(<<>>, <<UpCall("sendText", data.text.v), UpCall("flush", "")>>)

\* SpeakBranch as it would be with the validation `!data.text` alone.
SpeakBranchNoTypeCheck(data, ready, conn, rs) ==
    IF ~Truthy(data.text)
    THEN Effects(<<SendJson("Error", "VALIDATION_ERROR", "INVALID_TEXT",
                            "Text field is required and must be a non-empty string", {}, rs)>>,
                 <<>>)
    ELSE IF ~ready
    THEN Effects(<<SendJson("Error", "CONNECTION_ERROR", "CONNECTION_FAILED",
                            "Deepgram connection is not ready yet. Please wait for the Open event.",
                            {}, rs)>>,
                 <<>>)
    ELSE IF conn = "null" THEN MessageCatch(NullCall, rs)
    ELSE Effects(<<>>, <<UpCall("sendText", data.text.v), UpCall("flush", "")>>)

\* SpeakBranch as it would be with flush() called before sendText().
SpeakBranchFlushFirst(data, ready, conn, rs) ==
    IF ~Truthy(data.text) \/ data.text.t # "string"
    THEN Effects(<<SendJson("Error", "VALIDATION_ERROR", "INVALID_TEXT",
                            "Text field is required and must be a non-empty string", {}, rs)>>,
                 <<>>)
    ELSE IF ~ready
    THEN Effects(<<SendJson("Error", "CONNECTION_ERROR", "CONNECTION_FAILED",
                            "Deepgram connection is not ready yet. Please wait for the Open event.",
                            {}, rs)>>,
                 <<>>)
    ELSE IF conn = "null" THEN MessageCatch(NullCall, rs)
    ELSE Effects(<<>>, <<UpCall("flush", ""), UpCall("sendText", data.text.v)>>)

\* SpeakBranch as it would be if a failed validation also closed the socket.
SpeakBranchValidationCloses(data, ready, conn, rs) ==
    IF ~Truthy(data.text) \/ data.text.t # "string"
    THEN Effects(<<SendJson("Error", "VALIDATION_ERROR", "INVALID_TEXT",
                            "Text field is required and must be a non-empty string", {}, rs),
                   CloseCall(1008, "Invalid message", rs)>>,
                 <<>>)
    ELSE IF ~ready
    THEN Effects(<<SendJson("Error", "CONNECTION_ERROR", "CONNECTION_FAILED",
                            "Deepgram connection is not ready yet. Please wait for the Open event.",
                            {}, rs)>>,
                 <<>>)
    ELSE IF conn = "null" THEN MessageCatch(NullCall, rs)
    ELSE Effects(<<>>, <<UpCall("sendText", data.text.v), UpCall("flush", "")>>)

SpeakBranch(data, ready, conn, rs) ==
    IF ~Truthy(data.text) \/ data.text.t # "string"
    THEN Effects(<<SendJson("Error", "VALIDATION_ERROR", "INVALID_TEXT",
                            "Text field is required and must be a non-empty string", {}, rs)>>,
                 <<>>)
    ELSE IF ~ready
    THEN Effects(<<SendJson("Error", "CONNECTION_ERROR", "CONNECTION_FAILED",
                            "Deepgram connection is not ready yet. Please wait for the Open event.",
                            {}, rs)>>,
                 <<>>)
    ELSE IF conn = "null" THEN MessageCatch(NullCall, rs)
    ELSE Effects(<<>>, <<UpCall("sendText", data.text.v), UpCall("flush", "")>>)

FlushBranch(conn, rs) ==
    IF conn = "null" THEN MessageCatch(NullCall, rs)
    ELSE Effects(<<>>, <<UpCall("flush", "")>>)

\* ClearBranch as it would be without the test typeof clear === 'function'.
ClearBranchNoTypeofTest(conn, clearOk, rs) ==
    IF conn = "null" THEN MessageCatch(NullCall, rs)
    ELSE Effects(<<>>, <<UpCall("clear", "")>>)

ClearBranch(conn, clearOk, rs) ==
    IF conn = "null" THEN MessageCatch(NullCall, rs)
    ELSE IF clearOk THEN Effects(<<>>, <<UpCall("clear", "")>>)
    ELSE Effects(<<>>, <<>>)

\* CloseBranch as it would be with the downstream closed first.
CloseBranchDownstreamFirst(conn, rs) ==
    Effects(<<CloseCall(1000, "Normal closure", rs)>>,
            IF conn # "null" THEN <<UpCall("requestClose", "")>> ELSE <<>>)

CloseBranch(conn, rs) ==
    [down |-> <<CloseCall(1000, "Normal closure", rs)>>,
     up |-> IF conn # "null" THEN <<UpCall("requestClose", "")>> ELSE <<>>,
     order |-> IF conn # "null" THEN <<"up", "down">> ELSE <<"down">>]

\* OnClientMessage as it would be if an unknown type were answered with an
\* Error.
OnClientMessageRejectsUnknown(raw, ready, conn, clearOk, rs) ==
    IF raw.parse = "SyntaxError" THEN MessageCatch(raw.reason, rs)
    ELSE IF raw.parse = "null" THEN MessageCatch(NullCall, rs)
    ELSE IF raw.type = "Speak" THEN SpeakBranch(raw, ready, conn, rs)
    ELSE IF raw.type = "Flush" THEN FlushBranch(conn, rs)
    ELSE IF raw.type = "Clear" THEN ClearBranch(conn, clearOk, rs)
    ELSE IF raw.type = "Close" THEN CloseBranch(conn, rs)
    ELSE Effects(<<SendJson("Error", "VALIDATION_ERROR", "UNKNOWN_TYPE",
                            "Unknown message type", {}, rs)>>,
                 <<>>)

OnClientMessage(raw, ready, conn, clearOk, rs) ==
    IF raw.parse = "SyntaxError" THEN MessageCatch(raw.reason, rs)
    ELSE IF raw.parse = "null" THEN MessageCatch(NullCall, rs)
    ELSE IF raw.type = "Speak" THEN SpeakBranch(raw, ready, conn, rs)
    ELSE IF raw.type = "Flush" THEN FlushBranch(conn, rs)
    ELSE IF raw.type = "Clear" THEN ClearBranch(conn, clearOk, rs)
    ELSE IF raw.type = "Close" THEN CloseBranch(conn, rs)
    ELSE Effects(<<>>, <<>>)

----------------------------------------------------------------------------
\* The client socket's 'close' and 'error' handlers: the same clean-up.

OnClientClose(conn) ==
    Effects(<<>>, IF conn # "null" THEN <<UpCall("requestClose", "")>> ELSE <<>>)

OnClientError(conn) ==
    Effects(<<>>, IF conn # "null" THEN <<UpCall("requestClose", "")>> ELSE <<>>)

----------------------------------------------------------------------------
\* The ws socket: close() on an OPEN socket starts the closing handshake and
\* is a no-op on a socket that is already CLOSING or CLOSED.

WsAfterCalls(rs, down) ==
    IF rs = "OPEN" /\ \E i \in 1..Len(down) : down[i].op = "close" THEN "CLOSING" ELSE rs


----------------------------------------------------------------------------
\* The starter variant of the relay (src/frontend/main.js, lines 719-1186):
\* the handlers that differ from those of the relay.  Its Open, Audio,
\* Flushed, Close and Error handlers and its Flush, Clear and Close branches
\* make the same calls as the relay's; it has no ready flag, no try around
\* deepgram.speak.live() and no listener for LiveTTSEvents.Unhandled.

\* The Metadata handler: its body is left to the reader.
StarterOnMetadata(data, rs) == Effects(<<>>, <<>>)

\* The Speak branch: the validation, and then nothing (the calls of sendText
\* and flush are commented out).
StarterSpeakBranch(data, rs) ==
    IF ~Truthy(data.text) \/ data.text.t # "string"
    THEN Effects(<<SendJson("Error", "VALIDATION_ERROR", "INVALID_TEXT",
                            "Text field is required and must be a non-empty string", {}, rs)>>,
                 <<>>)
    ELSE Effects(<<>>, <<>>)

StarterOnClientMessage(raw, conn, clearOk, rs) ==
    IF raw.parse = "SyntaxError" THEN MessageCatch(raw.reason, rs)
    ELSE IF raw.parse = "null" THEN MessageCatch(NullCall, rs)
    ELSE IF raw.type = "Speak" THEN StarterSpeakBranch(raw, rs)
    ELSE IF raw.type = "Flush" THEN FlushBranch(conn, rs)
    ELSE IF raw.type = "Clear" THEN ClearBranch(conn, clearOk, rs)
    ELSE IF raw.type = "Close" THEN CloseBranch(conn, rs)
    ELSE Effects(<<>>, <<>>)

----------------------------------------------------------------------------
\* The pass-through proxy (src/server.js): its handlers.

\* A frame received from the upstream socket: binary audio, or a text frame
\* with its type and its other fields.
UpBinary(chunk) == [binary |-> TRUE, type |-> "", body |-> chunk, props |-> {}]
UpText(type, props) == [binary |-> FALSE, type |-> type, body |-> "", props |-> props]

\* clientWs.send(data, { binary: isBinary }): the frame as it was received.
SendFrame(f, rs) ==
    [op |-> "send", binary |-> f.binary, type |-> f.type, etype |-> "", code |-> "",
     body |-> f.body, props |-> f.props, ccode |-> 0, rs |-> rs]

\* The Error message of the proxy: description and code at the top level.
FlatError(description, code, rs) ==
    SendJson("Error", "", "", "", {<<"description", description>>, <<"code", code>>}, rs)

\* Calls on deepgramWs.
ProxyUpCall(op, data, isBinary) == [op |-> op, text |-> data, binary |-> isBinary]

\* clientWs.close() without arguments.
NoCode == 0

\* The catch block of the connection handler.
ProxySetupCatch(rs) ==
    IF rs = "OPEN"
    THEN Effects(<<FlatError("Failed to establish proxy connection", "CONNECTION_FAILED", rs),
                   CloseCall(NoCode, "", rs)>>,
                 <<>>)
    ELSE Effects(<<>>, <<>>)

ProxyOnUpstreamOpen == Effects(<<>>, <<>>)

ProxyOnUpstreamMessage(f, rs) ==
    IF rs = "OPEN" THEN Effects(<<SendFrame(f, rs)>>, <<>>) ELSE Effects(<<>>, <<>>)

\* error.message || 'Deepgram connection error'
ProxyErrorText(message) == IF Truthy(message) THEN message.v ELSE "Deepgram connection error"

ProxyOnUpstreamError(message, rs) ==
    IF rs = "OPEN"
    THEN Effects(<<FlatError(ProxyErrorText(message), "PROVIDER_ERROR", rs)>>, <<>>)
    ELSE Effects(<<>>, <<>>)

reservedCodes == {1004, 1005, 1006, 1015}

\* closeCode as it would be without the test of the reserved codes.
closeCodeRangeOnly(code) == IF code >= 1000 /\ code <= 4999 THEN code ELSE 1000

\* The close event of a ws socket always carries a number.
closeCode(code) ==
    IF code >= 1000 /\ code <= 4999 /\ code \notin reservedCodes THEN code ELSE 1000

ProxyOnUpstreamClose(code, reason, rs) ==
    IF rs = "OPEN" THEN Effects(<<CloseCall(closeCode(code), reason, rs)>>, <<>>)
    ELSE Effects(<<>>, <<>>)

ProxyOnClientMessage(f, ws) ==
    IF ws = "OPEN" THEN Effects(<<>>, <<ProxyUpCall("send", f.data, f.binary)>>)
    ELSE Effects(<<>>, <<>>)

ProxyOnClientClose(ws) ==
    IF ws = "OPEN" THEN Effects(<<>>, <<ProxyUpCall("close", "", FALSE)>>)
    ELSE Effects(<<>>, <<>>)

ProxyOnClientError(ws) ==
    IF ws = "OPEN" THEN Effects(<<>>, <<ProxyUpCall("close", "", FALSE)>>)
    ELSE Effects(<<>>, <<>>)

----------------------------------------------------------------------------
\* The browser client: values.

\* Texts are sequences of characters, so that trim() is computed.
RECURSIVE TrimStart(_)
TrimStart(t) == IF t # <<>> /\ Head(t) = " " THEN TrimStart(Tail(t)) ELSE t

RECURSIVE TrimEnd(_)
TrimEnd(t) ==
    IF t # <<>> /\ t[Len(t)] = " " THEN TrimEnd(SubSeq(t, 1, Len(t) - 1)) ELSE t

Trim(t) == TrimEnd(TrimStart(t))

\* What the user may have typed when clicking Generate.
TextInputs == {<<" ">>, <<" ", "b", " ">>}

\* The voice selected.
ModelInputs == {"aura-asteria-en"}

NullMetadata == [null |-> TRUE, fields |-> {}]

\* The value handleGenerate and handleCancel give state.currentGeneration.
Generation(text, model, startTime) ==
    [text |-> text, model |-> model, audioChunks |-> <<>>,
     startTime |-> startTime, metadata |-> NullMetadata]

NoStatus == [type |-> "", message |-> "", arg |-> ""]

\* A WebSocket just created by new WebSocket(url).
NewSocket(model) ==
    [rs |-> "CONNECTING", model |-> model, sent |-> <<>>, wasOpen |-> FALSE,
     gotOpen |-> FALSE, got |-> <<>>]

\* The state of the page after DOMContentLoaded.
ClientFresh ==
    /\ websocket = 0
    /\ isConnecting = FALSE
    /\ isGenerating = FALSE
    /\ currentGeneration = Generation(<<>>, "", "null")
    /\ queue = <<>>
    /\ nextId = 1
    /\ currentlyPlayingId = 0
    /\ generateBtnDisabled = FALSE
    /\ cancelBtnHidden = TRUE
    /\ status = NoStatus
    /\ sockets = <<>>
    /\ timers = 0
    /\ generations = <<>>
    /\ received = <<>>
    /\ assembled = <<>>
    /\ events = 0
    /\ lastEvent = [kind |-> "none", ws |-> 0, type |-> "", error |-> Undefined,
                    hasError |-> FALSE, isGenerating |-> FALSE, queueLen |-> 0,
                    playing |-> 0]

----------------------------------------------------------------------------
\* The server process: values.

\* Client sockets one server process accepts.
MaxSockets == 2

\* Shutdown signals one server process is sent.
MaxSignals == 2

SocketIds == 1..MaxSockets

\* The process after server.listen(): no socket accepted, no signal received.
ServerFresh ==
    /\ deepgramWs = "none"
    /\ wsState = [i \in SocketIds |-> "none"]
    /\ listening = "listening"
    /\ closeCallbacks = 0
    /\ exitTimers = 0
    /\ exitCode = "running"
    /\ signals = <<>>
    /\ shutdowns = <<>>

----------------------------------------------------------------------------
\* One relay session as a state machine.

\* The record of one handler run: the event, its payload (raw for a client
\* message, arg for the others), the state the handler saw, and its calls.
Run(ev, raw, arg, e) ==
    [ev |-> ev, raw |-> raw, arg |-> arg,
     ready |-> isConnectionReady, conn |-> deepgramConnection,
     rs |-> clientReadyState, dg |-> dgState,
     active |-> ClientWs \in activeConnections,
     down |-> e.down, up |-> e.up, order |-> e.order]

\* Apply as it would be if a later send overtook the earlier ones.
ApplyNewestFirst(ev, raw, arg, e) ==
    /\ downCalls' = e.down \o downCalls
    /\ upCalls' = upCalls \o e.up
    /\ clientReadyState' = WsAfterCalls(clientReadyState, e.down)
    /\ history' = Append(history, Run(ev, raw, arg, e))

\* A handler's calls take effect and the run is recorded: the handlers run
\* one after the other, and clientWs transmits what it is given in the order
\* of the send calls.
Apply(ev, raw, arg, e) ==
    /\ downCalls' = downCalls \o e.down
    /\ upCalls' = upCalls \o e.up
    /\ clientReadyState' = WsAfterCalls(clientReadyState, e.down)
    /\ history' = Append(history, Run(ev, raw, arg, e))

\* A connection has been accepted; its handler has not run yet.
RelayFresh ==
    /\ phase = "accepted"
    /\ activeConnections = {}
    /\ deepgramConnection = "null"
    /\ isConnectionReady = FALSE
    /\ clientReadyState = "OPEN"
    /\ clientErrored = FALSE
    /\ dgState = "none"
    /\ clearSupported = FALSE
    /\ upCalls = <<>>
    /\ downCalls = <<>>
    /\ history = <<>>

InitRelay == RelayFresh /\ ClientFresh /\ ServerFresh

\* wss.on('connection'): register the socket, create the upstream connection,
\* and either report the failure and return, or install the handlers.
Connection ==
    /\ phase = "accepted"
    /\ UNCHANGED <<clientVars, serverVars>>
    /\ \/ \E error \in ThrownErrors :
            /\ Apply("connection", NoRaw, "throw", ConnectionCatch(error, clientReadyState))
            /\ activeConnections' = (activeConnections \cup {ClientWs}) \ {ClientWs}
            /\ phase' = "rejected"
            /\ UNCHANGED <<deepgramConnection, dgState, clearSupported>>
       \/ \E clearOk \in BOOLEAN :
            /\ Apply("connection", NoRaw, "ok", Effects(<<>>, <<>>))
            /\ activeConnections' = activeConnections \cup {ClientWs}
            /\ deepgramConnection' = "conn"
            /\ dgState' = "connecting"
            /\ clearSupported' = clearOk
            /\ phase' = "relaying"
    /\ UNCHANGED <<isConnectionReady, clientErrored>>

\* The handlers below exist only once the connection handler installed them.
Relaying == phase = "relaying" /\ Len(history) <= MaxSteps

UpstreamOpen ==
    /\ Relaying /\ dgState = "connecting"
    /\ UNCHANGED <<clientVars, serverVars>>
    /\ dgState' = "open"
    /\ isConnectionReady' = TRUE
    /\ Apply("Open", NoRaw, "", OnOpen(clientReadyState))
    /\ UNCHANGED <<phase, activeConnections, deepgramConnection, clientErrored, clearSupported>>

UpstreamMetadata ==
    /\ Relaying /\ dgState = "open"
    /\ UNCHANGED <<clientVars, serverVars>>
    /\ \E data \in MetadataEvents :
          Apply("Metadata", NoRaw, data.request_id, OnMetadata(data, clientReadyState))
    /\ UNCHANGED <<phase, activeConnections, deepgramConnection, isConnectionReady,
                   clientErrored, dgState, clearSupported>>

UpstreamAudio ==
    /\ Relaying /\ dgState = "open"
    /\ UNCHANGED <<clientVars, serverVars>>
    /\ \E audioData \in AudioFrames :
          Apply("Audio", NoRaw, audioData, OnAudio(audioData, clientReadyState))
    /\ UNCHANGED <<phase, activeConnections, deepgramConnection, isConnectionReady,
                   clientErrored, dgState, clearSupported>>

UpstreamUnhandled ==
    /\ Relaying /\ dgState = "open"
    /\ UNCHANGED <<clientVars, serverVars>>
    /\ \E data \in UnhandledEvents :
          Apply("Unhandled", [NoRaw EXCEPT !.text = Str(data.sequence_id)], data.type,
                OnUnhandled(data, clientReadyState))
    /\ UNCHANGED <<phase, activeConnections, deepgramConnection, isConnectionReady,
                   clientErrored, dgState, clearSupported>>

UpstreamFlushed ==
    /\ Relaying /\ dgState = "open"
    /\ UNCHANGED <<clientVars, serverVars>>
    /\ Apply("Flushed", NoRaw, "", OnFlushed(clientReadyState))
    /\ UNCHANGED <<phase, activeConnections, deepgramConnection, isConnectionReady,
                   clientErrored, dgState, clearSupported>>

\* The upstream connection closes: after a normal session, after an error,
\* or before it ever opened.
UpstreamClose ==
    /\ Relaying /\ dgState \in {"connecting", "open", "failed"}
    /\ UNCHANGED <<clientVars, serverVars>>
    /\ dgState' = "closed"
    /\ isConnectionReady' = FALSE
    /\ Apply("Close", NoRaw, "", OnClose(clientReadyState))
    /\ UNCHANGED <<phase, activeConnections, deepgramConnection, clientErrored, clearSupported>>

\* The upstream connection reports an error: a failed handshake while it is
\* connecting, a provider error while it is open.  Only its Close follows.
UpstreamError ==
    /\ Relaying /\ dgState \in {"connecting", "open"}
    /\ UNCHANGED <<clientVars, serverVars>>
    /\ dgState' = "failed"
    /\ \E message \in UpstreamErrors :
          Apply("Error", [NoRaw EXCEPT !.text = message], "",
                OnError(message, clientReadyState))
    /\ UNCHANGED <<phase, activeConnections, deepgramConnection, isConnectionReady,
                   clientErrored, clearSupported>>

\* clientWs 'message'.  The ws socket keeps delivering messages after the
\* relay called close() until the peer's close frame arrives, and delivers
\* none after an error.
ClientMessage ==
    /\ Relaying /\ clientReadyState \in {"OPEN", "CLOSING"} /\ ~clientErrored
    /\ UNCHANGED <<clientVars, serverVars>>
    /\ \E raw \in RawMessages :
          Apply("message", raw, "",
                OnClientMessage(raw, isConnectionReady, deepgramConnection,
                                clearSupported, clientReadyState))
    /\ UNCHANGED <<phase, activeConnections, deepgramConnection, isConnectionReady,
                   clientErrored, dgState, clearSupported>>

\* clientWs 'close': emitted once, when the socket is closed.
ClientClose ==
    /\ Relaying /\ clientReadyState \in {"OPEN", "CLOSING"}
    /\ UNCHANGED <<clientVars, serverVars>>
    /\ LET e == OnClientClose(deepgramConnection) IN
          /\ downCalls' = downCalls \o e.down
          /\ upCalls' = upCalls \o e.up
          /\ history' = Append(history, Run("close", NoRaw, "", e))
    /\ clientReadyState' = "CLOSED"
    /\ deepgramConnection' = "null"
    /\ activeConnections' = activeConnections \ {ClientWs}
    /\ UNCHANGED <<phase, isConnectionReady, clientErrored, dgState, clearSupported>>

\* clientWs 'error': the socket is being torn down; 'close' follows.
ClientError ==
    /\ Relaying /\ clientReadyState \in {"OPEN", "CLOSING"} /\ ~clientErrored
    /\ UNCHANGED <<clientVars, serverVars>>
    /\ LET e == OnClientError(deepgramConnection) IN
          /\ downCalls' = downCalls \o e.down
          /\ upCalls' = upCalls \o e.up
          /\ history' = Append(history, Run("error", NoRaw, "", e))
    /\ clientReadyState' = "CLOSING"
    /\ clientErrored' = TRUE
    /\ deepgramConnection' = "null"
    /\ activeConnections' = activeConnections \ {ClientWs}
    /\ UNCHANGED <<phase, isConnectionReady, dgState, clearSupported>>

NextRelay ==
    \/ Connection
    \/ UpstreamOpen
    \/ UpstreamMetadata
    \/ UpstreamAudio
    \/ UpstreamUnhandled
    \/ UpstreamFlushed
    \/ UpstreamClose
    \/ UpstreamError
    \/ ClientMessage
    \/ ClientClose
    \/ ClientError

SpecRelay == InitRelay /\ [][NextRelay]_vars

\* The most recent handler run.
Last == history[Len(history)]

----------------------------------------------------------------------------
\* Properties of the relay session.  "The relay sends m" and "the relay
\* closes the socket" are statements about the calls the handlers make on
\* clientWs and deepgramConnection, as recorded in history.

Runs == {history[i] : i \in DOMAIN history}

IsErrorSend(c, etype, code) ==
    c.op = "send" /\ ~c.binary /\ c.type = "Error" /\ c.etype = etype /\ c.code = code

NumCalls(calls, op) == Cardinality({i \in DOMAIN calls : calls[i].op = op})

IsSpeak(h) == h.ev = "message" /\ h.raw.parse = "object" /\ h.raw.type = "Speak"

\* The text of a Speak is a non-empty string.
HasText(h) == h.raw.text.t = "string" /\ h.raw.text.v # ""

\* C1 as stated: every Speak message received while isConnectionReady is
\* false is answered with exactly the Error CONNECTION_ERROR/CONNECTION_FAILED
\* and nothing is called on the upstream for it.
C1_Original ==
    \A h \in Runs :
        (IsSpeak(h) /\ ~h.ready)
            => /\ Len(h.down) = 1
               /\ IsErrorSend(h.down[1], "CONNECTION_ERROR", "CONNECTION_FAILED")
               /\ h.up = <<>>

\* C1 (amended): every Speak message whose text is a non-empty string and
\* that is received while isConnectionReady is false (before the upstream Open
\* event or after the upstream Close event) is answered with exactly one
\* Error, of type CONNECTION_ERROR and code CONNECTION_FAILED, and neither
\* sendText nor flush (nor anything else) is called on the upstream for it.
C1_NotReadyRejected ==
    \A h \in Runs :
        (IsSpeak(h) /\ HasText(h) /\ ~h.ready)
            => /\ Len(h.down) = 1
               /\ IsErrorSend(h.down[1], "CONNECTION_ERROR", "CONNECTION_FAILED")
               /\ h.up = <<>>

\* C1 witness: one session rejected a Speak with text before the upstream
\* opened and another after the upstream closed.
C1_Witness ==
    /\ \E h \in Runs : IsSpeak(h) /\ HasText(h) /\ ~h.ready /\ h.dg = "connecting"
                       /\ IsErrorSend(h.down[1], "CONNECTION_ERROR", "CONNECTION_FAILED")
    /\ \E h \in Runs : IsSpeak(h) /\ HasText(h) /\ ~h.ready /\ h.dg = "closed"
                       /\ IsErrorSend(h.down[1], "CONNECTION_ERROR", "CONNECTION_FAILED")

\* C2: every Speak message whose text is missing, the empty string or not a
\* string is answered with exactly one Error, of type VALIDATION_ERROR and
\* code INVALID_TEXT, whatever the session state, and nothing is called on the
\* upstream for it.
C2_InvalidTextRejected ==
    \A h \in Runs :
        (IsSpeak(h) /\ ~HasText(h))
            => /\ Len(h.down) = 1
               /\ IsErrorSend(h.down[1], "VALIDATION_ERROR", "INVALID_TEXT")
               /\ h.up = <<>>

\* C2 witness: a missing text was rejected before the upstream was ready, an
\* empty text while it was ready, and a text that is not a string while it
\* was ready.
C2_Witness ==
    /\ \E h \in Runs : IsSpeak(h) /\ h.raw.text.t = "undefined" /\ ~h.ready
                       /\ IsErrorSend(h.down[1], "VALIDATION_ERROR", "INVALID_TEXT")
    /\ \E h \in Runs : IsSpeak(h) /\ h.raw.text = Str("") /\ h.ready
                       /\ IsErrorSend(h.down[1], "VALIDATION_ERROR", "INVALID_TEXT")
    /\ \E h \in Runs : IsSpeak(h) /\ h.raw.text.t = "number" /\ h.ready
                       /\ IsErrorSend(h.down[1], "VALIDATION_ERROR", "INVALID_TEXT")

\* The texts of the Speak messages with text that were received while ready,
\* in the order received.
RECURSIVE AcceptedTexts(_)
AcceptedTexts(hs) ==
    IF hs = <<>> THEN <<>>
    ELSE LET h == Head(hs) IN
         (IF IsSpeak(h) /\ HasText(h) /\ h.ready THEN <<h.raw.text.v>> ELSE <<>>)
             \o AcceptedTexts(Tail(hs))

\* The texts passed to sendText, in call order.
RECURSIVE SentTexts(_)
SentTexts(calls) ==
    IF calls = <<>> THEN <<>>
    ELSE (IF Head(calls).op = "sendText" THEN <<Head(calls).text>> ELSE <<>>)
             \o SentTexts(Tail(calls))

C4_Original ==
    Cardinality({i \in DOMAIN history :
                    history[i].ev = "message" /\ history[i].raw.type = "Close"}) <= 1
        => /\ NumCalls(upCalls, "requestClose") <= 1
           /\ (\E h \in Runs : h.ev = "Close") => NumCalls(downCalls, "close") <= 1

\* A close code the relay may pass to clientWs.close().
ValidCloseCode(c) == c >= 1000 /\ c <= 4999 /\ c \notin {1004, 1005, 1006, 1015}

\* C5 as stated: once the downstream emitted close or error, the upstream has
\* been requested to close; and the handler of the upstream Close event sends
\* the Close message and then closes the downstream socket with a normal or
\* mapped code.
C5_Original ==
    \A h \in Runs :
        /\ (h.ev \in {"close", "error"}) => NumCalls(upCalls, "requestClose") >= 1
        /\ (h.ev = "Close")
              => /\ Len(h.down) = 2
                 /\ h.down[1].op = "send" /\ h.down[1].type = "Close"
                 /\ h.down[2].op = "close" /\ ValidCloseCode(h.down[2].ccode)

\* C6: on every upstream Error event the handler makes exactly two calls on
\* the downstream socket: it sends one Error message of type TTS_ERROR and
\* code AUDIO_GENERATION_ERROR that carries the provider's message (the text
\* 'Unknown error occurred' when the provider gave none), and then it closes
\* the socket with code 1011.
C6_UpstreamErrorReported ==
    \A h \in Runs :
        (h.ev = "Error")
            => /\ Len(h.down) = 2
               /\ IsErrorSend(h.down[1], "TTS_ERROR", "AUDIO_GENERATION_ERROR")
               /\ h.down[1].body =
                     (IF h.raw.text.t = "string" /\ h.raw.text.v # ""
                      THEN h.raw.text.v ELSE "Unknown error occurred")
               /\ h.down[2].op = "close" /\ h.down[2].ccode = 1011
               /\ h.up = <<>>

\* C6 witness: the upstream reported 'Bad Request' in an open session; the
\* client was sent the Error and the socket went from OPEN to CLOSING.
C6_Witness ==
    /\ Len(history) > 0
    /\ Last.ev = "Error" /\ Last.dg = "open" /\ Last.raw.text = Str("Bad Request")
    /\ Last.rs = "OPEN" /\ clientReadyState = "CLOSING"
    /\ Last.down[1].body = "Bad Request"
    /\ Last.down[2].ccode = 1011

\* The handler run in which the upstream handshake failed: creating the
\* connection threw, or the connection reported an error before it opened.
HandshakeFailed(h) ==
    \/ h.ev = "connection" /\ h.arg = "throw"
    \/ h.ev = "Error" /\ h.dg = "connecting"

\* C7 as stated: when the upstream handshake fails, the session sends exactly
\* one Error of type ConnectionError, closes the downstream with the
\* server-error code 1011, takes the socket out of activeConnections, and has
\* sent no Open and forwarded nothing.
C7_Original ==
    (Len(history) > 0 /\ HandshakeFailed(Last))
        => /\ Cardinality({i \in DOMAIN downCalls :
                             downCalls[i].op = "send" /\ downCalls[i].type = "Error"}) = 1
           /\ \E i \in DOMAIN downCalls :
                 downCalls[i].op = "send" /\ downCalls[i].type = "Error"
                 /\ downCalls[i].etype = "ConnectionError"
           /\ \E i \in DOMAIN downCalls :
                 downCalls[i].op = "close" /\ downCalls[i].ccode = 1011
           /\ ClientWs \notin activeConnections
           /\ \A i \in DOMAIN downCalls : downCalls[i].type # "Open"
           /\ upCalls = <<>>

----------------------------------------------------------------------------
\* The browser client: the state object, the page and the sockets as one
\* record, and the handlers as functions on it.

Pack ==
    [websocket |-> websocket, isConnecting |-> isConnecting, isGenerating |-> isGenerating,
     currentGeneration |-> currentGeneration, queue |-> queue, nextId |-> nextId,
     currentlyPlayingId |-> currentlyPlayingId, generateBtnDisabled |-> generateBtnDisabled,
     cancelBtnHidden |-> cancelBtnHidden, status |-> status, sockets |-> sockets,
     timers |-> timers]

Unpack(st) ==
    /\ websocket' = st.websocket
    /\ isConnecting' = st.isConnecting
    /\ isGenerating' = st.isGenerating
    /\ currentGeneration' = st.currentGeneration
    /\ queue' = st.queue
    /\ nextId' = st.nextId
    /\ currentlyPlayingId' = st.currentlyPlayingId
    /\ generateBtnDisabled' = st.generateBtnDisabled
    /\ cancelBtnHidden' = st.cancelBtnHidden
    /\ status' = st.status
    /\ sockets' = st.sockets
    /\ timers' = st.timers

\* WebSocket.send: throws on a CONNECTING socket (and on null), queues the
\* message on an OPEN one, discards it on a CLOSING or CLOSED one.
SendThrows(st, w) == w = 0 \/ st.sockets[w].rs = "CONNECTING"

WsSend(st, w, msg) ==
    IF st.sockets[w].rs = "OPEN" THEN [st EXCEPT !.sockets[w].sent = Append(@, msg)] ELSE st

\* WebSocket.close: starts closing a CONNECTING or OPEN socket, and does
\* nothing on a CLOSING or CLOSED one.
WsClose(st, w) ==
    IF st.sockets[w].rs \in {"CONNECTING", "OPEN"} THEN [st EXCEPT !.sockets[w].rs = "CLOSING"]
    ELSE st

showStatus(st, type, message, arg) ==
    [st EXCEPT !.status = [type |-> type, message |-> message, arg |-> arg]]

resetUI(st) == [st EXCEPT !.generateBtnDisabled = FALSE, !.cancelBtnHidden = TRUE]

connectWebSocket(st, text, model) ==
    [st EXCEPT !.isConnecting = TRUE,
               !.sockets = Append(@, NewSocket(model)),
               !.websocket = Len(st.sockets) + 1]

\* handleGenerate as it would be without the test of state.isGenerating.
handleGenerateNoBusyCheck(st, value, model) ==
    LET text == Trim(value) IN
    IF text = <<>> THEN showStatus(st, "error", "Please enter some text to convert", "")
    ELSE connectWebSocket(
             showStatus([st EXCEPT !.currentGeneration = Generation(text, model, "now"),
                                   !.isGenerating = TRUE,
                                   !.generateBtnDisabled = TRUE,
                                   !.cancelBtnHidden = FALSE],
                        "info", "Connecting to Deepgram...", ""),
             text, model)

handleGenerate(st, value, model) ==
    LET text == Trim(value) IN
    IF text = <<>> THEN showStatus(st, "error", "Please enter some text to convert", "")
    ELSE IF st.isGenerating THEN showStatus(st, "warning", "Generation already in progress", "")
    ELSE connectWebSocket(
             showStatus([st EXCEPT !.currentGeneration = Generation(text, model, "now"),
                                   !.isGenerating = TRUE,
                                   !.generateBtnDisabled = TRUE,
                                   !.cancelBtnHidden = FALSE],
                        "info", "Connecting to Deepgram...", ""),
             text, model)

ClearMessage == [type |-> "Clear", text |-> <<>>]
SpeakMessage(text) == [type |-> "Speak", text |-> text]

handleCancel(st) ==
    LET w == st.websocket
        st1 == IF w # 0 /\ st.sockets[w].rs = "OPEN"
               THEN [WsSend(st, w, ClearMessage) EXCEPT !.timers = @ + 1]
               ELSE st
    IN showStatus(resetUI([st1 EXCEPT !.isGenerating = FALSE,
                                      !.isConnecting = FALSE,
                                      !.currentGeneration = Generation(<<>>, "", "null")]),
                  "warning", "Generation cancelled by user", "")

\* The callback handleCancel gave setTimeout.
cancelTimeout(st) ==
    LET st1 == [st EXCEPT !.timers = @ - 1] IN
    IF st1.websocket # 0 THEN [WsClose(st1, st1.websocket) EXCEPT !.websocket = 0] ELSE st1

onopen(st) ==
    showStatus([st EXCEPT !.isConnecting = FALSE], "info", "Waiting for Deepgram to be ready...", "")

CodeText(code) ==
    CASE code = 1000 -> "1000" [] code = 1001 -> "1001" [] code = 1006 -> "1006"
      [] code = 1011 -> "1011" [] OTHER -> "?"

onclose(st, code) ==
    LET st1 == [st EXCEPT !.isConnecting = FALSE, !.isGenerating = FALSE]
        st2 == IF code = 1011 \/ code = 1000 THEN st1
               ELSE showStatus(st1, "warning", "Connection closed unexpectedly (code: )",
                               CodeText(code))
    IN resetUI(st2)

\* onerror as it would be if the page connected again after a socket error.
onerrorReconnects(st) ==
    connectWebSocket(
        resetUI([showStatus(st, "error", "Connection error occurred", "")
                    EXCEPT !.isConnecting = FALSE, !.isGenerating = FALSE]),
        st.currentGeneration.text, st.currentGeneration.model)

onerror(st) ==
    resetUI([showStatus(st, "error", "Connection error occurred", "")
                EXCEPT !.isConnecting = FALSE, !.isGenerating = FALSE])

handleMetadata(st, metadata) ==
    [st EXCEPT !.currentGeneration.metadata =
                   [null |-> FALSE,
                    fields |-> {<<f, metadata[f]>> : f \in MetadataFields \cap DOMAIN metadata}]]

\* new Blob([arrayBuffer]) holds the buffer's bytes; blob.size is their number.
handleAudioChunkUnshift(st, arrayBuffer) ==
    LET st1 == [st EXCEPT !.currentGeneration.audioChunks = <<arrayBuffer>> \o @] IN
    showStatus(st1, "info", "Receiving audio... chunks", "")

handleAudioChunk(st, arrayBuffer) ==
    LET st1 == [st EXCEPT !.currentGeneration.audioChunks = Append(@, arrayBuffer)] IN
    showStatus(st1, "info", "Receiving audio... chunks", "")

\* DataView.setUint16 / setUint32, little-endian (true) and big-endian (false).
U16LE(x) == <<x % 256, (x \div 256) % 256>>
U32LE(x) == <<x % 256, (x \div 256) % 256, (x \div 65536) % 256, (x \div 16777216) % 256>>
U32BE(x) == <<(x \div 16777216) % 256, (x \div 65536) % 256, (x \div 256) % 256, x % 256>>

sampleRate == 48000
numChannels == 1
bitsPerSample == 16
byteRate == sampleRate * numChannels * (bitsPerSample \div 8)
blockAlign == numChannels * (bitsPerSample \div 8)

\* createWavHeader as it would be with the whole file size in the RIFF field.
createWavHeaderWholeSize(dataSize) ==
    U32BE(1380533830) \o U32LE(44 + dataSize) \o U32BE(1463899717)
        \o U32BE(1718449184) \o U32LE(16) \o U16LE(1) \o U16LE(numChannels)
        \o U32LE(sampleRate) \o U32LE(byteRate) \o U16LE(blockAlign) \o U16LE(bitsPerSample)
        \o U32BE(1684108385) \o U32LE(dataSize)

\* 0x52494646 "RIFF", 0x57415645 "WAVE", 0x666d7420 "fmt ", 0x64617461 "data".
createWavHeader(dataSize) ==
    U32BE(1380533830) \o U32LE(36 + dataSize) \o U32BE(1463899717)
        \o U32BE(1718449184) \o U32LE(16) \o U16LE(1) \o U16LE(numChannels)
        \o U32LE(sampleRate) \o U32LE(byteRate) \o U16LE(blockAlign) \o U16LE(bitsPerSample)
        \o U32BE(1684108385) \o U32LE(dataSize)

\* audioChunks.reduce((sum, blob) => sum + blob.size, 0)
RECURSIVE pcmDataSize(_)
pcmDataSize(audioChunks) ==
    IF audioChunks = <<>> THEN 0 ELSE Len(Head(audioChunks)) + pcmDataSize(Tail(audioChunks))

\* new Blob(parts): the parts' bytes, one part after the other.
RECURSIVE Blob(_)
Blob(parts) == IF parts = <<>> THEN <<>> ELSE Head(parts) \o Blob(Tail(parts))

stopAudio(st) == [st EXCEPT !.currentlyPlayingId = 0]

playAudio(st, itemId) ==
    IF \A i \in DOMAIN st.queue : st.queue[i].id # itemId THEN st
    ELSE [(IF st.currentlyPlayingId # 0 THEN stopAudio(st) ELSE st)
             EXCEPT !.currentlyPlayingId = itemId]

handleFlushed(st) ==
    LET audioChunks == st.currentGeneration.audioChunks
        wavHeader == createWavHeader(pcmDataSize(audioChunks))
        queueItem == [id |-> st.nextId,
                      text |-> st.currentGeneration.text,
                      model |-> st.currentGeneration.model,
                      audioBlob |-> Blob(<<wavHeader>> \o audioChunks),
                      chunkCount |-> Len(audioChunks),
                      status |-> "complete",
                      metadata |-> st.currentGeneration.metadata]
        st1 == [st EXCEPT !.nextId = @ + 1, !.queue = <<queueItem>> \o @]
        st2 == playAudio(showStatus(st1, "success", "Generated chunks", ""), queueItem.id)
        st3 == IF st2.websocket # 0
               THEN [WsClose(st2, st2.websocket) EXCEPT !.websocket = 0]
               ELSE st2
    IN resetUI([st3 EXCEPT !.isGenerating = FALSE])

\* removeQueueItem as it would be if it took the item's position for its id.
removeQueueItemAtIndex(st, itemId) ==
    [st EXCEPT !.queue = IF itemId \in DOMAIN @
                         THEN SubSeq(@, 1, itemId - 1) \o SubSeq(@, itemId + 1, Len(@))
                         ELSE @]

\* state.queue.filter(item => item.id !== itemId)
removeQueueItem(st, itemId) ==
    [st EXCEPT !.queue = SelectSeq(@, LAMBDA item : item.id # itemId)]

handleClearQueue(st) == [st EXCEPT !.queue = <<>>]

\* error.message || 'An unknown error occurred'
handleError(st, error) ==
    LET errorMessage == IF Truthy(error.message) THEN error.message.v
                        ELSE "An unknown error occurred"
        st1 == showStatus(st, "error", "Error: ", errorMessage)
        st2 == IF st1.websocket # 0
               THEN [WsClose(st1, st1.websocket) EXCEPT !.websocket = 0]
               ELSE st1
    IN resetUI([st2 EXCEPT !.isGenerating = FALSE])

\* The server's text messages: what JSON.parse(event.data) makes of them.
\* error.present is whether the message has an error object at all.
JsonEvent(type, error, fields) ==
    [parse |-> "object", type |-> type, error |-> error, fields |-> fields]
NoError == [present |-> FALSE, message |-> Undefined]
ErrorObject(message) == [present |-> TRUE, message |-> message]
MalformedEvent == [parse |-> "SyntaxError", type |-> "", error |-> NoError, fields |-> <<>>]

ClientMetadata == {[request_id |-> "r1", model_name |-> "aura", model_version |-> "v1",
                    model_uuid |-> "u1"]}

JsonEvents ==
    {JsonEvent(ty, NoError, <<>>) : ty \in {"Open", "Flushed", "Cleared", "Close"}}
    \cup {JsonEvent("Metadata", NoError, m) : m \in ClientMetadata}
    \cup {JsonEvent("Error", e, <<>>) :
             e \in {ErrorObject(Str("Bad Request")), ErrorObject(Undefined), NoError}}
    \cup {MalformedEvent}

\* handleJsonMessage inside the try of onmessage: an exception thrown by a
\* handler (send on null or on a CONNECTING socket, error.message of an
\* undefined error) is caught and logged, and what was done before it stays.
\* handleJsonMessage as it would be if a Close message completed the
\* generation as Flushed does.
handleJsonMessageCloseCompletes(st, message) ==
    CASE message.type = "Open" ->
            LET st1 == showStatus(st, "info", "Generating audio...", "") IN
            IF SendThrows(st1, st1.websocket) THEN st1
            ELSE WsSend(st1, st1.websocket, SpeakMessage(st1.currentGeneration.text))
      [] message.type = "Metadata" -> handleMetadata(st, message.fields)
      [] message.type = "Flushed" -> handleFlushed(st)
      [] message.type = "Cleared" -> st
      [] message.type = "Close" -> handleFlushed(st)
      [] message.type = "Error" ->
            IF message.error.present THEN handleError(st, message.error) ELSE st
      [] OTHER -> st

handleJsonMessage(st, message) ==
    CASE message.type = "Open" ->
            LET st1 == showStatus(st, "info", "Generating audio...", "") IN
            IF SendThrows(st1, st1.websocket) THEN st1
            ELSE WsSend(st1, st1.websocket, SpeakMessage(st1.currentGeneration.text))
      [] message.type = "Metadata" -> handleMetadata(st, message.fields)
      [] message.type = "Flushed" -> handleFlushed(st)
      [] message.type = "Cleared" -> st
      [] message.type = "Close" ->
            IF st.websocket # 0 THEN WsClose(st, st.websocket) ELSE st
      [] message.type = "Error" ->
            IF message.error.present THEN handleError(st, message.error) ELSE st
      [] OTHER -> st

onmessageText(st, event) ==
    IF event.parse = "SyntaxError" THEN st ELSE handleJsonMessage(st, event)

----------------------------------------------------------------------------
\* The browser client as a state machine: clicks, the cancel timer, and the
\* events of every socket the page has created (a replaced socket keeps its
\* handlers).

\* Binary frames the server relays.
AudioChunks == {<<1>>, <<2, 3>>}

\* Close codes a close event can carry.
CloseCodes == {1000, 1006}

InFlight == {g \in DOMAIN generations : generations[g] = "generating"}

\* Generation g ends as `how` ("complete", "error" or "cancelled"), unless it
\* has ended before.
End(g, how) ==
    IF g \in DOMAIN generations /\ generations[g] = "generating"
    THEN [generations EXCEPT ![g] = how]
    ELSE generations

\* The generation state.currentGeneration was made for ends.
EndCurrent(how) == End(Len(generations), how)

\* The page handles one more event.
Handled == events < MaxEvents /\ events' = events + 1

\* The event now handled is noted: its kind ("generate", "cancel", "timer",
\* "open", "binary", "json", "error", "close"), its socket, for a text
\* message its type and error.message, and the page's isGenerating, queue
\* length and playing item when it arrived.
Note(kind, i, type, error) ==
    lastEvent' = [kind |-> kind, ws |-> i, type |-> type, error |-> error.message,
                  hasError |-> error.present, isGenerating |-> isGenerating,
                  queueLen |-> Len(queue), playing |-> currentlyPlayingId]

InitClient == RelayFresh /\ ClientFresh /\ ServerFresh

\* Click on the Generate button, enabled, with some text in the input.
ClickGenerate ==
    /\ ~generateBtnDisabled
    /\ Handled
    /\ Len(sockets) < MaxGens
    /\ Note("generate", 0, "", NoError)
    /\ \E value \in TextInputs, model \in ModelInputs :
           LET st == handleGenerate(Pack, value, model)
               started == Len(st.sockets) > Len(sockets)
           IN /\ Unpack(st)
              /\ generations' = IF started THEN Append(generations, "generating")
                                ELSE generations
              /\ received' = IF started THEN <<>> ELSE received
    /\ UNCHANGED <<assembled, relayVars, serverVars>>

\* Click on the Cancel button, shown.
ClickCancel ==
    /\ ~cancelBtnHidden
    /\ Handled
    /\ Unpack(handleCancel(Pack))
    /\ Note("cancel", 0, "", NoError)
    /\ generations' = EndCurrent("cancelled")
    /\ received' = <<>>
    /\ UNCHANGED <<assembled, relayVars, serverVars>>

\* The 100 ms timer of handleCancel fires.  A timer that was set always
\* fires, so MaxEvents does not hold it back: there are no more timers than
\* clicks on Cancel.
CancelTimeout ==
    /\ timers > 0
    /\ events' = IF events < MaxEvents THEN events + 1 ELSE events
    /\ Unpack(cancelTimeout(Pack))
    /\ Note("timer", 0, "", NoError)
    /\ UNCHANGED <<generations, received, assembled, relayVars, serverVars>>

SocketOpen ==
    \E i \in DOMAIN sockets :
        /\ sockets[i].rs = "CONNECTING"
        /\ Handled
        /\ Note("open", i, "", NoError)
        /\ Unpack(onopen([Pack EXCEPT !.sockets[i].rs = "OPEN", !.sockets[i].wasOpen = TRUE]))
        /\ UNCHANGED <<generations, received, assembled, relayVars, serverVars>>

\* A binary message on socket i: onmessage, the ArrayBuffer branch.
Binary(i, chunk, max) ==
    /\ sockets[i].rs = "OPEN"
    /\ Handled
    /\ Len(currentGeneration.audioChunks) < max
    /\ Note("binary", i, "", NoError)
    /\ Unpack(handleAudioChunk([Pack EXCEPT !.sockets[i].got = Append(@, chunk)], chunk))
    /\ received' = Append(received, [ws |-> i, data |-> chunk])
    /\ UNCHANGED <<generations, assembled, relayVars, serverVars>>

SocketBinary == \E i \in DOMAIN sockets, chunk \in AudioChunks : Binary(i, chunk, MaxChunks)

\* A text message on socket i: onmessage, the JSON branch.
Json(i, event, max) ==
    /\ sockets[i].rs = "OPEN"
    /\ Handled
    /\ event.type = "Open" => ~sockets[i].gotOpen
    /\ Note("json", i, IF event.parse = "SyntaxError" THEN "<malformed>" ELSE event.type,
            event.error)
    /\ event.type = "Flushed" => nextId <= max
    /\ LET st0 == IF event.type = "Open" THEN [Pack EXCEPT !.sockets[i].gotOpen = TRUE] ELSE Pack
       IN Unpack(onmessageText(st0, event))
    /\ generations' = IF event.type = "Flushed" THEN EndCurrent("complete")
                      ELSE IF event.type = "Error" /\ event.error.present
                      THEN EndCurrent("error")
                      ELSE generations
    /\ assembled' = IF event.type = "Flushed"
                    THEN Append(assembled, [gen |-> Len(generations), ws |-> i,
                                            running |-> Len(generations) \in InFlight,
                                            chunks |-> received])
                    ELSE assembled
    /\ UNCHANGED <<received, relayVars, serverVars>>

SocketJson == \E i \in DOMAIN sockets, event \in JsonEvents : Json(i, event, MaxQueue)

\* Socket i fails (the connection cannot be made, is lost, or was closed
\* before it was established): the browser fires its error event and its
\* close event, code 1006, one after the other in the same task.
SocketError ==
    \E i \in DOMAIN sockets :
        /\ sockets[i].rs # "CLOSED"
        /\ Handled
        /\ Note("error", i, "", NoError)
        /\ Unpack(onclose(onerror([Pack EXCEPT !.sockets[i].rs = "CLOSED"]), 1006))
        /\ generations' = End(i, "error")
        /\ UNCHANGED <<received, assembled, relayVars, serverVars>>

\* The close event of socket i after the closing handshake of a socket that
\* was open.
SocketClose ==
    \E i \in DOMAIN sockets :
        /\ sockets[i].rs \in {"OPEN", "CLOSING"}
        /\ sockets[i].wasOpen
        /\ Handled
        /\ Note("close", i, "", NoError)
        /\ \E code \in CloseCodes :
               Unpack(onclose([Pack EXCEPT !.sockets[i].rs = "CLOSED"], code))
        /\ generations' = End(i, "error")
        /\ UNCHANGED <<received, assembled, relayVars, serverVars>>

NextClient ==
    \/ ClickGenerate
    \/ ClickCancel
    \/ CancelTimeout
    \/ SocketOpen
    \/ SocketBinary
    \/ SocketJson
    \/ SocketError
    \/ SocketClose

SpecClient == InitClient /\ [][NextClient]_vars

\* The same page with the one thing the browser guarantees without any help
\* from the network or the user: a timer that was set fires.
SpecClientLive == SpecClient /\ WF_vars(CancelTimeout)

----------------------------------------------------------------------------
\* The page with its queue list: the clicks and socket events as above, with
\* room for one more queue item, and the two buttons of the list.

\* Queue items made in one run.
MaxQueueItems == 3

InitQueue == RelayFresh /\ ClientFresh /\ ServerFresh

QueueJson == \E i \in DOMAIN sockets, event \in JsonEvents : Json(i, event, MaxQueueItems)

\* Click on the remove button of a rendered queue item.  The clicks on the
\* list need no bound: each removes something.
ClickRemove ==
    /\ \E k \in DOMAIN queue : Unpack(removeQueueItem(Pack, queue[k].id))
    /\ Note("remove", 0, "", NoError)
    /\ UNCHANGED <<events, generations, received, assembled, relayVars, serverVars>>

\* Click on the Clear Queue button, shown while the queue has items.
ClickClearQueue ==
    /\ queue # <<>>
    /\ Unpack(handleClearQueue(Pack))
    /\ Note("clear", 0, "", NoError)
    /\ UNCHANGED <<events, generations, received, assembled, relayVars, serverVars>>

NextQueue ==
    \/ ClickGenerate
    \/ ClickCancel
    \/ CancelTimeout
    \/ SocketOpen
    \/ SocketBinary
    \/ QueueJson
    \/ SocketError
    \/ SocketClose
    \/ ClickRemove
    \/ ClickClearQueue

SpecQueue == InitQueue /\ [][NextQueue]_vars

----------------------------------------------------------------------------
\* One generation at a time with audio-sized chunks: text is submitted, the
\* socket opens, chunks arrive, Flushed arrives.

MaxWavGens == 1

\* An ArrayBuffer of n bytes, all b.
Bytes(n, b) == [k \in 1..n |-> b]

WavChunks == {Bytes(100, 17), Bytes(200, 34), Bytes(50, 51), Bytes(0, 0)}

InitWav == RelayFresh /\ ClientFresh /\ ServerFresh

WavGenerate ==
    /\ ~generateBtnDisabled
    /\ Handled
    /\ Len(sockets) < MaxWavGens
    /\ Note("generate", 0, "", NoError)
    /\ \E model \in ModelInputs : Unpack(handleGenerate(Pack, <<"a">>, model))
    /\ generations' = Append(generations, "generating")
    /\ received' = <<>>
    /\ UNCHANGED <<assembled, relayVars, serverVars>>

WavOpen == SocketOpen

WavBinary ==
    \E i \in DOMAIN sockets, chunk \in WavChunks :
        /\ websocket = i
        /\ Binary(i, chunk, MaxWavChunks)

WavFlushed ==
    \E i \in DOMAIN sockets :
        /\ websocket = i
        /\ Json(i, JsonEvent("Flushed", NoError, <<>>), MaxQueue)

WavClose == SocketClose

NextWav ==
    \/ WavGenerate
    \/ WavOpen
    \/ WavBinary
    \/ WavFlushed
    \/ WavClose

SpecWav == InitWav /\ [][NextWav]_vars

----------------------------------------------------------------------------
\* One session of the starter variant as a state machine, on the variables
\* of the relay session (isConnectionReady, which the variant does not have,
\* stays false).

InitStarter == RelayFresh /\ ClientFresh /\ ServerFresh

\* wss.on('connection'): register the socket and create the upstream
\* connection.  Nothing catches an exception of deepgram.speak.live(): it
\* leaves the handler with the socket registered and no handler installed.
StarterConnection ==
    /\ phase = "accepted"
    /\ UNCHANGED <<clientVars, serverVars>>
    /\ activeConnections' = activeConnections \cup {ClientWs}
    /\ \/ /\ Apply("connection", NoRaw, "throw", Effects(<<>>, <<>>))
          /\ phase' = "crashed"
          /\ UNCHANGED <<deepgramConnection, dgState, clearSupported>>
       \/ \E clearOk \in BOOLEAN :
            /\ Apply("connection", NoRaw, "ok", Effects(<<>>, <<>>))
            /\ deepgramConnection' = "conn"
            /\ dgState' = "connecting"
            /\ clearSupported' = clearOk
            /\ phase' = "relaying"
    /\ UNCHANGED <<isConnectionReady, clientErrored>>

StarterUpstreamOpen ==
    /\ Relaying /\ dgState = "connecting"
    /\ UNCHANGED <<clientVars, serverVars>>
    /\ dgState' = "open"
    /\ Apply("Open", NoRaw, "", OnOpen(clientReadyState))
    /\ UNCHANGED <<phase, activeConnections, deepgramConnection, isConnectionReady,
                   clientErrored, clearSupported>>

StarterUpstreamMetadata ==
    /\ Relaying /\ dgState = "open"
    /\ UNCHANGED <<clientVars, serverVars>>
    /\ \E data \in MetadataEvents :
          Apply("Metadata", NoRaw, data.request_id, StarterOnMetadata(data, clientReadyState))
    /\ UNCHANGED <<phase, activeConnections, deepgramConnection, isConnectionReady,
                   clientErrored, dgState, clearSupported>>

StarterUpstreamAudio ==
    /\ Relaying /\ dgState = "open"
    /\ UNCHANGED <<clientVars, serverVars>>
    /\ \E audioData \in AudioFrames :
          Apply("Audio", NoRaw, audioData, OnAudio(audioData, clientReadyState))
    /\ UNCHANGED <<phase, activeConnections, deepgramConnection, isConnectionReady,
                   clientErrored, dgState, clearSupported>>

\* LiveTTSEvents.Unhandled is emitted and nothing listens.
StarterUpstreamUnhandled ==
    /\ Relaying /\ dgState = "open"
    /\ UNCHANGED <<clientVars, serverVars>>
    /\ \E data \in UnhandledEvents :
          Apply("Unhandled", [NoRaw EXCEPT !.text = Str(data.sequence_id)], data.type,
                Effects(<<>>, <<>>))
    /\ UNCHANGED <<phase, activeConnections, deepgramConnection, isConnectionReady,
                   clientErrored, dgState, clearSupported>>

StarterUpstreamFlushed ==
    /\ Relaying /\ dgState = "open"
    /\ UNCHANGED <<clientVars, serverVars>>
    /\ Apply("Flushed", NoRaw, "", OnFlushed(clientReadyState))
    /\ UNCHANGED <<phase, activeConnections, deepgramConnection, isConnectionReady,
                   clientErrored, dgState, clearSupported>>

StarterUpstreamClose ==
    /\ Relaying /\ dgState \in {"connecting", "open", "failed"}
    /\ UNCHANGED <<clientVars, serverVars>>
    /\ dgState' = "closed"
    /\ Apply("Close", NoRaw, "", OnClose(clientReadyState))
    /\ UNCHANGED <<phase, activeConnections, deepgramConnection, isConnectionReady,
                   clientErrored, clearSupported>>

StarterUpstreamError ==
    /\ Relaying /\ dgState \in {"connecting", "open"}
    /\ UNCHANGED <<clientVars, serverVars>>
    /\ dgState' = "failed"
    /\ \E message \in UpstreamErrors :
          Apply("Error", [NoRaw EXCEPT !.text = message], "",
                OnError(message, clientReadyState))
    /\ UNCHANGED <<phase, activeConnections, deepgramConnection, isConnectionReady,
                   clientErrored, clearSupported>>

StarterClientMessage ==
    /\ Relaying /\ clientReadyState \in {"OPEN", "CLOSING"} /\ ~clientErrored
    /\ UNCHANGED <<clientVars, serverVars>>
    /\ \E raw \in RawMessages :
          Apply("message", raw, "",
                StarterOnClientMessage(raw, deepgramConnection, clearSupported,
                                       clientReadyState))
    /\ UNCHANGED <<phase, activeConnections, deepgramConnection, isConnectionReady,
                   clientErrored, dgState, clearSupported>>

\* The clean-up of the client socket's close and error handlers is the
\* relay's.
StarterClientClose == ClientClose

StarterClientError == ClientError

NextStarter ==
    \/ StarterConnection
    \/ StarterUpstreamOpen
    \/ StarterUpstreamMetadata
    \/ StarterUpstreamAudio
    \/ StarterUpstreamUnhandled
    \/ StarterUpstreamFlushed
    \/ StarterUpstreamClose
    \/ StarterUpstreamError
    \/ StarterClientMessage
    \/ StarterClientClose
    \/ StarterClientError

SpecStarter == InitStarter /\ [][NextStarter]_vars

----------------------------------------------------------------------------
\* The server process of the relay: the client sockets it has accepted, the
\* registry activeConnections (here a set of socket numbers) and the
\* shutdown signals.  Of a session only what the process sees is kept: the
\* state of its client socket.

ShutdownSignals == {"SIGTERM", "SIGINT"}

\* activeConnections.forEach(ws => ws.close(1001, ...)): close() starts the
\* closing handshake of an open socket and does nothing to another.
CloseAll(ws, active) ==
    [i \in SocketIds |-> IF i \in active /\ ws[i] = "OPEN" THEN "CLOSING" ELSE ws[i]]

\* server.close(): the server stops listening.
ServerClose(l) == IF l = "listening" THEN "closing" ELSE l

\* The handler as it would be without the setTimeout of the forced exit.
NoForceExitTimer(n) == n

\* setTimeout(() => process.exit(1), 10000): one more pending timer.
ForceExitTimer(n) == n + 1

\* The variables of the sessions and of the page, which the process-level
\* runs leave alone.
processUnused == <<phase, deepgramConnection, isConnectionReady, clientReadyState,
                   clientErrored, dgState, clearSupported, upCalls, downCalls, history,
                   deepgramWs, clientVars>>

Running == exitCode = "running"

InitShutdown == RelayFresh /\ ClientFresh /\ ServerFresh

\* wss.on('connection') for socket i: it is registered; when
\* deepgram.speak.live() throws it is closed with 1011 and removed again.
Accept(i) ==
    /\ Running /\ listening = "listening" /\ wsState[i] = "none"
    /\ \/ /\ wsState' = [wsState EXCEPT ![i] = "OPEN"]
          /\ activeConnections' = activeConnections \cup {i}
       \/ /\ wsState' = [wsState EXCEPT ![i] = "CLOSING"]
          /\ activeConnections' = (activeConnections \cup {i}) \ {i}
    /\ UNCHANGED <<listening, closeCallbacks, exitTimers, exitCode, signals, shutdowns,
                   processUnused>>

\* A handler of session i closes its client socket (the Close message, the
\* upstream Error event): the socket stays registered until its close event.
SessionCloses(i) ==
    /\ Running /\ wsState[i] = "OPEN"
    /\ wsState' = [wsState EXCEPT ![i] = "CLOSING"]
    /\ UNCHANGED <<activeConnections, listening, closeCallbacks, exitTimers, exitCode,
                   signals, shutdowns, processUnused>>

\* clientWs 'error' of socket i: removed from the registry; its close event
\* follows.
SocketErrored(i) ==
    /\ Running /\ wsState[i] \in {"OPEN", "CLOSING"} /\ i \in activeConnections
    /\ wsState' = [wsState EXCEPT ![i] = "CLOSING"]
    /\ activeConnections' = activeConnections \ {i}
    /\ UNCHANGED <<listening, closeCallbacks, exitTimers, exitCode, signals, shutdowns,
                   processUnused>>

\* clientWs 'close' of socket i: the connection is gone and the socket is
\* removed from the registry.
SocketClosed(i) ==
    /\ Running /\ wsState[i] \in {"OPEN", "CLOSING"}
    /\ wsState' = [wsState EXCEPT ![i] = "CLOSED"]
    /\ activeConnections' = activeConnections \ {i}
    /\ UNCHANGED <<listening, closeCallbacks, exitTimers, exitCode, signals, shutdowns,
                   processUnused>>

\* A shutdown signal is delivered: gracefulShutdown(signal) runs.
gracefulShutdown(signal) ==
    /\ Running /\ Len(signals) < MaxSignals
    /\ signals' = Append(signals, signal)
    /\ wsState' = CloseAll(wsState, activeConnections)
    /\ shutdowns' = Append(shutdowns,
                           [active |-> activeConnections,
                            closed |-> {i \in SocketIds : i \in activeConnections}])
    /\ listening' = ServerClose(listening)
    /\ closeCallbacks' = closeCallbacks + 1
    /\ exitTimers' = ForceExitTimer(exitTimers)
    /\ UNCHANGED <<activeConnections, exitCode, processUnused>>

\* The server's close event: it has stopped listening and its last
\* connection has ended; the callbacks of server.close() run:
\* process.exit(0).
ServerClosed ==
    /\ Running /\ listening = "closing"
    /\ \A i \in SocketIds : wsState[i] \in {"none", "CLOSED"}
    /\ listening' = "closed"
    /\ exitCode' = IF closeCallbacks > 0 THEN "0" ELSE exitCode
    /\ closeCallbacks' = 0
    /\ UNCHANGED <<activeConnections, wsState, exitTimers, signals, shutdowns, processUnused>>

\* A timer of gracefulShutdown fires: process.exit(1).
ForcedExit ==
    /\ Running /\ exitTimers > 0
    /\ exitCode' = "1"
    /\ exitTimers' = exitTimers - 1
    /\ UNCHANGED <<activeConnections, wsState, listening, closeCallbacks, signals, shutdowns,
                   processUnused>>

NextShutdown ==
    \/ \E i \in SocketIds : Accept(i)
    \/ \E i \in SocketIds : SessionCloses(i)
    \/ \E i \in SocketIds : SocketErrored(i)
    \/ \E i \in SocketIds : SocketClosed(i)
    \/ \E signal \in ShutdownSignals : gracefulShutdown(signal)
    \/ ServerClosed
    \/ ForcedExit

\* Timers fire and the close event of a server without connections is
\* emitted; whether and when a client's socket closes is up to the client.
SpecShutdown == InitShutdown /\ [][NextShutdown]_vars /\ WF_vars(ForcedExit) /\ WF_vars(ServerClosed)

----------------------------------------------------------------------------
\* The server process of the pass-through proxy (src/server.js): it keeps no
\* registry; its signal handlers call server.close() and nothing else.

InitProxyShutdown == RelayFresh /\ ClientFresh /\ ServerFresh

\* wss.on('connection') for socket i; when setting up the proxy throws, the
\* socket is closed.
ProxyAccept(i) ==
    /\ Running /\ listening = "listening" /\ wsState[i] = "none"
    /\ \/ wsState' = [wsState EXCEPT ![i] = "OPEN"]
       \/ wsState' = [wsState EXCEPT ![i] = "CLOSING"]
    /\ UNCHANGED <<activeConnections, listening, closeCallbacks, exitTimers, exitCode,
                   signals, shutdowns, processUnused>>

\* The upstream of session i closed: its handler closes the client socket.
ProxySessionCloses(i) ==
    /\ Running /\ wsState[i] = "OPEN"
    /\ wsState' = [wsState EXCEPT ![i] = "CLOSING"]
    /\ UNCHANGED <<activeConnections, listening, closeCallbacks, exitTimers, exitCode,
                   signals, shutdowns, processUnused>>

\* clientWs 'close' of socket i: the client left, or the closing handshake
\* the proxy started has completed.
ProxySocketClosed(i) ==
    /\ Running /\ wsState[i] \in {"OPEN", "CLOSING"}
    /\ wsState' = [wsState EXCEPT ![i] = "CLOSED"]
    /\ UNCHANGED <<activeConnections, listening, closeCallbacks, exitTimers, exitCode,
                   signals, shutdowns, processUnused>>

\* process.on('SIGTERM') / process.on('SIGINT'): server.close(callback).
ProxySignal(signal) ==
    /\ Running /\ Len(signals) < MaxSignals
    /\ signals' = Append(signals, signal)
    /\ listening' = ServerClose(listening)
    /\ closeCallbacks' = closeCallbacks + 1
    /\ UNCHANGED <<activeConnections, wsState, exitTimers, exitCode, shutdowns, processUnused>>

\* The server's close event: the callbacks run: process.exit(0).
ProxyServerClosed ==
    /\ Running /\ listening = "closing"
    /\ \A i \in SocketIds : wsState[i] \in {"none", "CLOSED"}
    /\ listening' = "closed"
    /\ exitCode' = IF closeCallbacks > 0 THEN "0" ELSE exitCode
    /\ closeCallbacks' = 0
    /\ UNCHANGED <<activeConnections, wsState, exitTimers, signals, shutdowns, processUnused>>

NextProxyShutdown ==
    \/ \E i \in SocketIds : ProxyAccept(i)
    \/ \E i \in SocketIds : ProxySessionCloses(i)
    \/ \E i \in SocketIds : ProxySocketClosed(i)
    \/ \E signal \in ShutdownSignals : ProxySignal(signal)
    \/ ProxyServerClosed

\* The close event of a server without connections is emitted, and a
\* closing handshake the proxy started ends (ws destroys the socket when the
\* peer does not answer); an open socket closes when its client or its
\* upstream decides.
SpecProxyShutdown ==
    /\ InitProxyShutdown /\ [][NextProxyShutdown]_vars
    /\ WF_vars(ProxyServerClosed)
    /\ \A i \in SocketIds : WF_vars(wsState[i] = "CLOSING" /\ ProxySocketClosed(i))

----------------------------------------------------------------------------
\* One session of the pass-through proxy as a state machine.  The session
\* uses phase, clientReadyState, clientErrored, upCalls, downCalls and history
\* as the relay session does, and deepgramWs for the upstream socket.

\* Handlers run in one proxy session after the connection handler.
MaxProxySteps == 4

\* Frames the provider sends.
UpstreamFrames ==
    {UpBinary("pcm1"), UpBinary("pcm2"),
     UpText("Metadata", {<<"request_id", "r1">>}),
     UpText("Flushed", {<<"sequence_id", "0">>})}

\* Frames the client sends.
ClientFrames ==
    {[binary |-> FALSE, data |-> "{type:Speak,text:hello}"],
     [binary |-> FALSE, data |-> "{type:Flush}"],
     [binary |-> FALSE, data |-> "not json"]}

\* Close codes the close event of the upstream socket can carry: the code of
\* the provider's close frame, 1005 when the frame had none, 1006 when the
\* connection ended without one.
UpstreamCloseCodes == {1000, 1005, 1006, 1011}

UpstreamCloseReasons == {"", "bye"}

\* What a handler of the proxy was given: the code and reason of a close
\* event, or the binary flag, type, payload and fields of a frame, or (in
\* type and body) the message of an error.
NoArg == [code |-> 0, reason |-> "", binary |-> FALSE, type |-> "", body |-> "", props |-> {}]

ProxyRun(ev, arg, e) ==
    [ev |-> ev, arg |-> arg, rs |-> clientReadyState, ws |-> deepgramWs,
     down |-> e.down, up |-> e.up, order |-> e.order]

\* close() on the upstream socket while it is OPEN starts its closing
\* handshake.
UpWsAfterCalls(ws, up) ==
    IF ws = "OPEN" /\ \E i \in 1..Len(up) : up[i].op = "close" THEN "CLOSING" ELSE ws

ProxyApply(ev, arg, e) ==
    /\ downCalls' = downCalls \o e.down
    /\ upCalls' = upCalls \o e.up
    /\ clientReadyState' = WsAfterCalls(clientReadyState, e.down)
    /\ history' = Append(history, ProxyRun(ev, arg, e))

\* The variables of the relay and of the process that the proxy session
\* does not use.
proxyUnused == <<activeConnections, deepgramConnection, isConnectionReady, dgState,
                 clearSupported, wsState, listening, closeCallbacks, exitTimers,
                 exitCode, signals, shutdowns, clientVars>>

InitProxy == RelayFresh /\ ClientFresh /\ ServerFresh

\* wss.on('connection'): build the provider URL, create the upstream socket
\* and install the handlers; or, when that throws, report it and close.
ProxyConnection ==
    /\ phase = "accepted"
    /\ \/ /\ ProxyApply("connection", [NoArg EXCEPT !.body = "throw"], ProxySetupCatch(clientReadyState))
          /\ phase' = "rejected"
          /\ UNCHANGED deepgramWs
       \/ /\ ProxyApply("connection", [NoArg EXCEPT !.body = "ok"], Effects(<<>>, <<>>))
          /\ phase' = "relaying"
          /\ deepgramWs' = "CONNECTING"
    /\ UNCHANGED <<clientErrored, proxyUnused>>

\* MaxProxySteps bounds the frames; the events of the two sockets' lives
\* happen once each and need no bound.
ProxySession == phase = "relaying"

Proxying == ProxySession /\ Len(history) <= MaxProxySteps

\* The upstream socket has reported an error: it is being torn down.
UpstreamErrored == \E i \in DOMAIN history : history[i].ev = "up.error"

ProxyUpstreamOpen ==
    /\ ProxySession /\ deepgramWs = "CONNECTING"
    /\ deepgramWs' = "OPEN"
    /\ ProxyApply("up.open", NoArg, ProxyOnUpstreamOpen)
    /\ UNCHANGED <<phase, clientErrored, proxyUnused>>

\* deepgramWs 'message': delivered while the socket is open, and after the
\* proxy called close() on it until the provider's close frame arrives.
ProxyUpstreamMessage ==
    /\ Proxying /\ deepgramWs \in {"OPEN", "CLOSING"} /\ ~UpstreamErrored
    /\ \E f \in UpstreamFrames :
          ProxyApply("up.message",
                     [NoArg EXCEPT !.binary = f.binary, !.type = f.type,
                                   !.body = f.body, !.props = f.props],
                     ProxyOnUpstreamMessage(f, clientReadyState))
    /\ UNCHANGED <<phase, clientErrored, deepgramWs, proxyUnused>>

\* deepgramWs 'error': the handshake failed, or the open connection broke.
\* ws marks the socket CLOSING before it emits the event; 'close' follows.
ProxyUpstreamError ==
    /\ ProxySession /\ deepgramWs \in {"CONNECTING", "OPEN"}
    /\ deepgramWs' = "CLOSING"
    /\ \E message \in UpstreamErrors :
          ProxyApply("up.error", [NoArg EXCEPT !.type = message.t, !.body = message.v],
                     ProxyOnUpstreamError(message, clientReadyState))
    /\ UNCHANGED <<phase, clientErrored, proxyUnused>>

\* deepgramWs 'close': after an error the code is 1006.
ProxyUpstreamClose ==
    /\ ProxySession /\ deepgramWs \in {"OPEN", "CLOSING"}
    /\ deepgramWs' = "CLOSED"
    /\ \E code \in (IF UpstreamErrored THEN {1006} ELSE UpstreamCloseCodes),
          reason \in UpstreamCloseReasons :
          ProxyApply("up.close", [NoArg EXCEPT !.code = code, !.reason = reason],
                     ProxyOnUpstreamClose(code, reason, clientReadyState))
    /\ UNCHANGED <<phase, clientErrored, proxyUnused>>

ProxyClientMessage ==
    /\ Proxying /\ clientReadyState \in {"OPEN", "CLOSING"} /\ ~clientErrored
    /\ \E f \in ClientFrames :
          LET e == ProxyOnClientMessage(f, deepgramWs) IN
              /\ ProxyApply("message", [NoArg EXCEPT !.binary = f.binary, !.body = f.data], e)
              /\ deepgramWs' = UpWsAfterCalls(deepgramWs, e.up)
    /\ UNCHANGED <<phase, clientErrored, proxyUnused>>

ProxyClientClose ==
    /\ ProxySession /\ clientReadyState \in {"OPEN", "CLOSING"}
    /\ LET e == ProxyOnClientClose(deepgramWs) IN
          /\ downCalls' = downCalls \o e.down
          /\ upCalls' = upCalls \o e.up
          /\ history' = Append(history, ProxyRun("close", NoArg, e))
          /\ deepgramWs' = UpWsAfterCalls(deepgramWs, e.up)
    /\ clientReadyState' = "CLOSED"
    /\ UNCHANGED <<phase, clientErrored, proxyUnused>>

ProxyClientError ==
    /\ ProxySession /\ clientReadyState \in {"OPEN", "CLOSING"} /\ ~clientErrored
    /\ LET e == ProxyOnClientError(deepgramWs) IN
          /\ downCalls' = downCalls \o e.down
          /\ upCalls' = upCalls \o e.up
          /\ history' = Append(history, ProxyRun("error", NoArg, e))
          /\ deepgramWs' = UpWsAfterCalls(deepgramWs, e.up)
    /\ clientReadyState' = "CLOSING"
    /\ clientErrored' = TRUE
    /\ UNCHANGED <<phase, proxyUnused>>

NextProxy ==
    \/ ProxyConnection
    \/ ProxyUpstreamOpen
    \/ ProxyUpstreamMessage
    \/ ProxyUpstreamError
    \/ ProxyUpstreamClose
    \/ ProxyClientMessage
    \/ ProxyClientClose
    \/ ProxyClientError

SpecProxy == InitProxy /\ [][NextProxy]_vars

\* The same session with what the two sockets guarantee: a connection
\* attempt ends (it opens or fails), a closing handshake or a teardown after
\* an error ends with the close event, and the close event follows an error
\* of the client socket.  Nothing obliges the provider to close an open
\* connection that nobody asked to close.
SpecProxyLive ==
    /\ SpecProxy
    /\ WF_vars(deepgramWs = "CONNECTING" /\ (ProxyUpstreamOpen \/ ProxyUpstreamError))
    /\ WF_vars(deepgramWs = "CLOSING" /\ ProxyUpstreamClose)
    /\ WF_vars(clientErrored /\ ProxyClientClose)

----------------------------------------------------------------------------
\* Properties of the browser client.

\* Unsigned 32-bit little-endian field at byte offset off (0-based).
LE32At(b, off) ==
    b[off + 1] + 256 * b[off + 2] + 65536 * b[off + 3] + 16777216 * b[off + 4]

RECURSIVE TotalLength(_)
TotalLength(chunks) ==
    IF chunks = <<>> THEN 0 ELSE Len(Head(chunks).data) + TotalLength(Tail(chunks))

RECURSIVE Concatenated(_)
Concatenated(chunks) ==
    IF chunks = <<>> THEN <<>> ELSE Head(chunks).data \o Concatenated(Tail(chunks))

Sizes(chunks) == [k \in DOMAIN chunks |-> Len(chunks[k].data)]

\* C8: every audio object handleFlushed has built has 44 + S bytes, S being
\* the total length of the chunks received before the Flushed message; its
\* bytes 40-43 decode (little-endian) to S and its bytes 4-7 to S + 36; for
\* chunks of 100, 200 and 50 bytes that is 394 bytes and a data size of 350.
C8_WavSizes ==
    \A k \in DOMAIN queue :
        LET blob == queue[k].audioBlob
            chunks == assembled[queue[k].id].chunks
            S == TotalLength(chunks)
        IN /\ Len(blob) = 44 + S
           /\ LE32At(blob, 40) = S
           /\ LE32At(blob, 4) = S + 36
           /\ Sizes(chunks) = <<100, 200, 50>> => Len(blob) = 394 /\ LE32At(blob, 40) = 350

C8_Witness ==
    \E k \in DOMAIN queue :
        /\ Sizes(assembled[queue[k].id].chunks) = <<100, 200, 50>>
        /\ Len(queue[k].audioBlob) = 394

\* C9: after its first 44 bytes, every audio object handleFlushed has built is
\* the concatenation of the chunks received for the current generation, each
\* once, in the order their binary messages arrived.
C9_ChunksInArrivalOrder ==
    \A k \in DOMAIN queue :
        LET blob == queue[k].audioBlob
            chunks == assembled[queue[k].id].chunks
        IN /\ Len(blob) >= 44
           /\ SubSeq(blob, 45, Len(blob)) = Concatenated(chunks)
           /\ queue[k].chunkCount = Len(chunks)

C9_Witness ==
    \E k \in DOMAIN queue :
        LET a == assembled[queue[k].id] IN
        /\ Len(a.chunks) = 2
        /\ a.chunks[1].data # a.chunks[2].data
        /\ \A c \in DOMAIN a.chunks : a.chunks[c].ws = a.gen
        /\ SubSeq(queue[k].audioBlob, 45, Len(queue[k].audioBlob))
               = a.chunks[1].data \o a.chunks[2].data

\* C10 as stated: at most one generation is in flight (started, and not yet
\* completed, failed or cancelled) at any time.
C10_Original == Cardinality(InFlight) <= 1

\* What a rejected handleGenerate must leave alone: the sockets and what was
\* sent on them, state.websocket, currentGeneration with its audioChunks, the
\* queue with its id counter, and isGenerating.
SameGeneration(st, st2) ==
    /\ st2.sockets = st.sockets
    /\ st2.websocket = st.websocket
    /\ st2.currentGeneration = st.currentGeneration
    /\ st2.queue = st.queue
    /\ st2.nextId = st.nextId
    /\ st2.isGenerating = st.isGenerating
    /\ st2.isConnecting = st.isConnecting

\* C11: in every state of the page, handleGenerate called with a text that is
\* empty or only whitespace, or called while isGenerating is true, opens no
\* socket, sends nothing, and leaves currentGeneration (with its audioChunks),
\* the queue and isGenerating as they were.
C11_RejectedGenerateFrame ==
    \A value \in TextInputs \cup {<<>>}, model \in ModelInputs :
        (Trim(value) = <<>> \/ isGenerating)
            => SameGeneration(Pack, handleGenerate(Pack, value, model))

\* C11 witness: a generation is in flight with a chunk received; a call with
\* text is answered 'already in progress', one with blanks 'enter some text'.
C11_Witness ==
    /\ isGenerating /\ currentGeneration.audioChunks # <<>>
    /\ \E model \in ModelInputs :
          /\ handleGenerate(Pack, <<" ", "b", " ">>, model).status.message
                 = "Generation already in progress"
          /\ handleGenerate(Pack, <<" ">>, model).status.message
                 = "Please enter some text to convert"

\* A socket belongs to the generation whose handleGenerate created it: the
\* g-th socket to the g-th generation.
Cancelled(g) == g \in DOMAIN generations /\ generations[g] = "cancelled"

\* C12 as stated: no queue item is made from a Flushed message or from audio
\* chunks that arrived on the socket of a cancelled generation.
C12_Original ==
    \A k \in DOMAIN queue :
        LET a == assembled[queue[k].id] IN
        /\ ~Cancelled(a.ws)
        /\ \A c \in DOMAIN a.chunks : ~Cancelled(a.chunks[c].ws)

\* A text message of the given type was the event handled last.
JustReceived(type) == lastEvent.kind = "json" /\ lastEvent.type = type

\* C13 as stated: when an Error message arrives while a generation is running
\* (isGenerating true), afterwards that generation has ended as failed, no
\* item was pushed to the queue, isGenerating is false, the generation's
\* socket is closing or closed, and the status indicator is an error that
\* carries the provider's message as received.
C13_Original ==
    (JustReceived("Error") /\ lastEvent.isGenerating)
        => /\ generations[Len(generations)] = "error"
           /\ Len(queue) = lastEvent.queueLen
           /\ ~isGenerating
           /\ sockets[Len(generations)].rs \in {"CLOSING", "CLOSED"}
           /\ status.type = "error"
           /\ lastEvent.error.t = "string" => status.arg = lastEvent.error.v

\* The chunks among `chunks` that arrived on socket w, in order.
RECURSIVE OwnChunks(_, _)
OwnChunks(chunks, w) ==
    IF chunks = <<>> THEN <<>>
    ELSE (IF Head(chunks).ws = w THEN <<Head(chunks).data>> ELSE <<>>)
             \o OwnChunks(Tail(chunks), w)

\* C14: the queue grows and playback starts only in the step that handles a
\* Flushed message (never on an audio chunk, a Metadata or Close message, a
\* socket close or any other event), and that step does both; and the item
\* made when the Flushed of a running generation arrives on that generation's
\* socket holds every chunk received on that socket, in its audio object.
C14_CompletedOnlyOnFlushed ==
    /\ (Len(queue) # lastEvent.queueLen \/ currentlyPlayingId # lastEvent.playing)
          => JustReceived("Flushed")
    /\ JustReceived("Flushed")
          => /\ Len(queue) = lastEvent.queueLen + 1
             /\ currentlyPlayingId = queue[1].id
    /\ \A k \in DOMAIN queue :
          LET a == assembled[queue[k].id] IN
          (a.running /\ a.ws = a.gen)
              => /\ OwnChunks(a.chunks, a.gen) = sockets[a.gen].got
                 /\ SubSeq(queue[k].audioBlob, 45, Len(queue[k].audioBlob))
                        = Concatenated(a.chunks)

\* C14 witness: a generation received Metadata and two chunks on its socket
\* and was then completed by the Flushed message just handled.
C14_Witness ==
    /\ JustReceived("Flushed")
    /\ LET a == assembled[queue[1].id] IN
          /\ a.running /\ a.ws = a.gen
          /\ Len(sockets[a.gen].got) = 2
          /\ ~queue[1].metadata.null
          /\ currentlyPlayingId = queue[1].id
          /\ generations[a.gen] = "complete"

\* The generation started last has failed: an Error message with its error
\* object was handled, or its socket failed or closed while it was running.
Failed == generations # <<>> /\ generations[Len(generations)] = "error"

\* The Speak messages socket i has been given to transmit.
Speaks(ss, i) == {k \in DOMAIN ss[i].sent : ss[i].sent[k].type = "Speak"}

NumSpeaks(ss) ==
    Cardinality({<<i, k>> \in (DOMAIN ss) \X (1..MaxEvents) : k \in Speaks(ss, i)})

\* C27: a socket is created only by the handling of a click on Generate;
\* while the generation started last has failed no event makes the page
\* send a Speak message; and over the whole run no more Speak messages are
\* sent than generations were started by the user.
C27_NoAutoRetry ==
    [][/\ Len(sockets') > Len(sockets) => lastEvent'.kind = "generate"
       /\ Failed => NumSpeaks(sockets') = NumSpeaks(sockets)
       /\ NumSpeaks(sockets') <= Len(generations')]_vars

\* C27 witness: the second generation sent its Speak and then failed with
\* its socket; afterwards the socket of the first generation, cancelled
\* while connecting, delivered Open, and the page sent nothing and opened no
\* socket.
C27_Witness ==
    /\ Len(generations) = 2 /\ Failed /\ Len(sockets) = 2
    /\ sockets[2].rs = "CLOSED"
    /\ sockets[2].sent = <<SpeakMessage(<<"b">>)>>
    /\ lastEvent.kind = "json" /\ lastEvent.type = "Open" /\ lastEvent.ws = 1
    /\ sockets[1].sent = <<>>

----------------------------------------------------------------------------
\* Further properties of the relay session.

\* The handler run with which the session began closing: a Close message was
\* handled, the downstream emitted close or error, or an upstream Error was
\* reported.
BeginsClosing(h) ==
    \/ h.ev = "message" /\ h.raw.parse = "object" /\ h.raw.type = "Close"
    \/ h.ev \in {"close", "error"}
    \/ h.ev = "Error"

UpstreamEvents == {"Open", "Metadata", "Audio", "Unhandled", "Flushed", "Close", "Error"}

Forwards(h) == \E i \in DOMAIN h.up : h.up[i].op \in {"sendText", "flush", "clear"}

\* A send the ws socket transmits: one made while it is OPEN.
Transmits(h) == \E i \in DOMAIN h.down : h.down[i].op = "send" /\ h.down[i].rs = "OPEN"

\* C15 as stated: once the session has begun closing, no later client message
\* makes the relay call sendText, flush or clear on the upstream, and no later
\* upstream event makes it transmit anything on the downstream socket.
C15_Original ==
    \A i, j \in DOMAIN history :
        (i < j /\ BeginsClosing(history[i]))
            => /\ history[j].ev = "message" => ~Forwards(history[j])
               /\ history[j].ev \in UpstreamEvents => ~Transmits(history[j])

\* What the session looks like after the i-th handler run: what the next run
\* saw, or the present state when the i-th run is the last.
After(i) ==
    IF i < Len(history)
    THEN [ready |-> history[i + 1].ready, conn |-> history[i + 1].conn,
          rs |-> history[i + 1].rs, dg |-> history[i + 1].dg,
          active |-> history[i + 1].active]
    ELSE [ready |-> isConnectionReady, conn |-> deepgramConnection, rs |-> clientReadyState,
          dg |-> dgState, active |-> ClientWs \in activeConnections]

\* The handling of this client message raised an exception inside the try:
\* JSON.parse threw, the parsed value was null (data.type throws), or a method
\* was called on a null deepgramConnection.
Raised(h) ==
    /\ h.ev = "message"
    /\ \/ h.raw.parse \in {"SyntaxError", "null"}
       \/ /\ h.conn = "null"
          /\ \/ h.raw.type \in {"Flush", "Clear"}
             \/ h.raw.type = "Speak" /\ HasText(h) /\ h.ready

\* C16: for every client message whose handling raised an exception, the
\* handler's only call is one send of an Error message on the downstream
\* socket: it calls close on neither leg and nothing else on the upstream,
\* and it leaves isConnectionReady, deepgramConnection and the socket's
\* readyState as they were, so that the next message is handled as usual.
C16_ExceptionsCaught ==
    \A i \in DOMAIN history :
        Raised(history[i])
            => /\ Len(history[i].down) = 1
               /\ history[i].down[1].op = "send" /\ history[i].down[1].type = "Error"
               /\ history[i].up = <<>>
               /\ After(i).ready = history[i].ready
               /\ After(i).conn = history[i].conn
               /\ After(i).rs = history[i].rs

\* C16 witness: a message that is not JSON and the message null were each
\* answered with an Error, and the Speak that followed was forwarded.
C16_Witness ==
    /\ Len(history) = 5
    /\ history[3].ev = "message" /\ history[3].raw.parse = "SyntaxError"
    /\ history[3].down[1].type = "Error"
    /\ history[4].ev = "message" /\ history[4].raw.parse = "null"
    /\ history[4].down[1].type = "Error"
    /\ IsSpeak(history[5]) /\ history[5].rs = "OPEN"
    /\ history[5].up = <<UpCall("sendText", "hello"), UpCall("flush", "")>>

\* The run replied with a VALIDATION_ERROR or a PARSING_ERROR.
RepliedInputError(h) ==
    /\ h.ev = "message"
    /\ \E c \in DOMAIN h.down :
          \/ IsErrorSend(h.down[c], "VALIDATION_ERROR", "INVALID_TEXT")
          \/ IsErrorSend(h.down[c], "PARSING_ERROR", "INVALID_TEXT")

\* C17: a handler run that replies with a VALIDATION_ERROR or a PARSING_ERROR
\* calls close on neither leg and leaves the session as it found it: the
\* downstream readyState, the upstream connection and its state,
\* isConnectionReady, and the socket's membership of activeConnections; and a
\* Speak with text that comes next while ready is forwarded with sendText
\* and flush.
C17_InputErrorFrame ==
    \A i \in DOMAIN history :
        RepliedInputError(history[i])
            => /\ \A c \in DOMAIN history[i].down : history[i].down[c].op # "close"
               /\ history[i].up = <<>>
               /\ After(i).rs = history[i].rs
               /\ After(i).conn = history[i].conn
               /\ After(i).dg = history[i].dg
               /\ After(i).ready = history[i].ready
               /\ After(i).active = history[i].active
               /\ (i < Len(history) /\ IsSpeak(history[i + 1]) /\ HasText(history[i + 1])
                       /\ history[i + 1].ready)
                     => history[i + 1].up = <<UpCall("sendText", history[i + 1].raw.text.v),
                                              UpCall("flush", "")>>

\* C17 witness: in an open, ready session a Speak without text got a
\* VALIDATION_ERROR and a malformed message a PARSING_ERROR; the Speak that
\* followed was forwarded, and both legs are still open.
C17_Witness ==
    /\ Len(history) = 5
    /\ IsSpeak(history[3]) /\ history[3].ready /\ history[3].rs = "OPEN"
    /\ IsErrorSend(history[3].down[1], "VALIDATION_ERROR", "INVALID_TEXT")
    /\ history[4].ev = "message"
    /\ IsErrorSend(history[4].down[1], "PARSING_ERROR", "INVALID_TEXT")
    /\ IsSpeak(history[5]) /\ history[5].up = <<UpCall("sendText", "world"), UpCall("flush", "")>>
    /\ clientReadyState = "OPEN" /\ dgState = "open" /\ isConnectionReady
    /\ ClientWs \in activeConnections

\* C18: for every client message that JSON.parse rejects, the handler's only
\* call is one send of an Error with error.type PARSING_ERROR and error.code
\* INVALID_TEXT whose message is 'Failed to parse message: ' followed by the
\* parser's reason; nothing is called on the upstream.
C18_ParseFailureReported ==
    \A h \in Runs :
        (h.ev = "message" /\ h.raw.parse = "SyntaxError")
            => /\ Len(h.down) = 1
               /\ IsErrorSend(h.down[1], "PARSING_ERROR", "INVALID_TEXT")
               /\ h.down[1].body = h.raw.reason
               /\ <<"prefix", "Failed to parse message: ">> \in h.down[1].props
               /\ h.up = <<>>

\* C18 witness: two messages that fail to parse for different reasons were
\* each answered with their own reason, one before the upstream was ready and
\* one while it was.
C18_Witness ==
    \E h1, h2 \in Runs :
        /\ h1.ev = "message" /\ h1.raw.parse = "SyntaxError" /\ ~h1.ready
        /\ h2.ev = "message" /\ h2.raw.parse = "SyntaxError" /\ h2.ready
        /\ h1.raw.reason # h2.raw.reason
        /\ h1.down[1].body = h1.raw.reason
        /\ h2.down[1].body = h2.raw.reason

IsFlush(h) == h.ev = "message" /\ h.raw.parse = "object" /\ h.raw.type = "Flush"
IsClear(h) == h.ev = "message" /\ h.raw.parse = "object" /\ h.raw.type = "Clear"

\* The session is as the i-th run found it.
Unchanged(i) ==
    /\ After(i).rs = history[i].rs
    /\ After(i).conn = history[i].conn
    /\ After(i).dg = history[i].dg
    /\ After(i).ready = history[i].ready
    /\ After(i).active = history[i].active

\* C19: whenever a client message is handled the upstream
\* connection object exists; every Flush message makes exactly one flush call
\* on it and every Clear message exactly one clear call when the connection
\* has a clear method and none when it has not, whatever the state of the
\* upstream (connecting, open, failed or closed); neither sends anything on
\* the downstream socket nor changes the session.
C19_FlushClearForwarded ==
    \A i \in DOMAIN history :
        LET h == history[i] IN
        /\ h.ev = "message" => h.conn # "null"
        /\ IsFlush(h) => h.down = <<>> /\ h.up = <<UpCall("flush", "")>> /\ Unchanged(i)
        /\ IsClear(h) => h.down = <<>> /\ Unchanged(i)
                         /\ h.up = IF clearSupported THEN <<UpCall("clear", "")>> ELSE <<>>

\* C19 witness: a Flush arrived before the upstream opened and another after
\* it closed, and each made one flush call; a Clear arrived at a connection
\* without clear and did nothing.
C19_Witness ==
    /\ \E h \in Runs : IsFlush(h) /\ h.dg = "connecting" /\ h.up = <<UpCall("flush", "")>>
    /\ \E h \in Runs : IsFlush(h) /\ h.dg = "closed" /\ h.up = <<UpCall("flush", "")>>
    /\ \E h \in Runs : IsClear(h) /\ ~clearSupported /\ h.up = <<>> /\ h.down = <<>>

IsClose(h) == h.ev = "message" /\ h.raw.parse = "object" /\ h.raw.type = "Close"

\* C20: for every Close message, in whatever state the session is, the
\* handler calls requestClose() on the upstream once and then
\* close(1000, 'Normal closure') on the downstream socket once, in that
\* order, and makes no other call.
C20_CloseMessage ==
    \A h \in Runs :
        IsClose(h)
            => /\ h.up = <<UpCall("requestClose", "")>>
               /\ h.down = <<CloseCall(1000, "Normal closure", h.rs)>>
               /\ h.order = <<"up", "down">>

\* C20 witness: a Close message was handled before the upstream opened (the
\* socket went from OPEN to CLOSING) and another one after it opened, on the
\* socket that was closing by then.
C20_Witness ==
    /\ \E h \in Runs : IsClose(h) /\ h.dg = "connecting" /\ h.rs = "OPEN"
                       /\ h.order = <<"up", "down">>
    /\ Len(history) > 0 /\ IsClose(Last) /\ Last.dg = "open" /\ Last.rs = "CLOSING"
    /\ Last.order = <<"up", "down">>
    /\ clientReadyState = "CLOSING"

----------------------------------------------------------------------------
\* Properties of the audio path and of the unrecognised messages of the relay.

\* The audio frames that arrived while the downstream socket was open, in
\* order of arrival.
RECURSIVE AudioArrived(_)
AudioArrived(hs) ==
    IF hs = <<>> THEN <<>>
    ELSE (IF Head(hs).ev = "Audio" /\ Head(hs).rs = "OPEN" THEN <<Head(hs).arg>> ELSE <<>>)
             \o AudioArrived(Tail(hs))

\* The payloads of the binary messages sent downstream, in call order.
RECURSIVE BinarySent(_)
BinarySent(calls) ==
    IF calls = <<>> THEN <<>>
    ELSE (IF Head(calls).op = "send" /\ Head(calls).binary THEN <<Head(calls).body>> ELSE <<>>)
             \o BinarySent(Tail(calls))

\* C21: every upstream audio frame that arrives while the downstream socket
\* is open is sent downstream as exactly one binary message with the same
\* bytes and nothing else is done for it; no other handler sends a binary
\* message, so the binary messages sent over the session are exactly those
\* frames, in order, none duplicated or altered.  The proxy's upstream
\* message handler does the same with a binary frame: one send, of the frame
\* as received, flagged binary.
C21_AudioVerbatim ==
    /\ \A h \in Runs :
          /\ (h.ev = "Audio" /\ h.rs = "OPEN")
                => h.down = <<SendBinary(h.arg, "OPEN")>> /\ h.up = <<>>
          /\ (h.ev # "Audio") => \A i \in DOMAIN h.down : ~h.down[i].binary
    /\ BinarySent(downCalls) = AudioArrived(history)
    /\ \A f \in UpstreamFrames :
          f.binary => ProxyOnUpstreamMessage(f, "OPEN")
                        = Effects(<<SendBinary(f.body, "OPEN")>>, <<>>)

\* C21 witness: two different audio frames arrived while the downstream
\* socket was open and were sent as two binary messages, in that order.
C21_Witness ==
    /\ AudioArrived(history) = <<"pcm1", "pcm2">>
    /\ BinarySent(downCalls) = <<"pcm1", "pcm2">>
    /\ \E h \in Runs : h.ev = "Audio" /\ h.down = <<SendBinary("pcm2", "OPEN")>>

\* A client message that parsed to an object whose type is none of the four
\* the relay knows (or is absent).
IsUnrecognised(h) ==
    /\ h.ev = "message" /\ h.raw.parse = "object"
    /\ h.raw.type \notin {"Speak", "Flush", "Clear", "Close"}

\* C29: a client message that parses to an object whose type is none of
\* Speak, Flush, Clear and Close (or is missing) makes the relay call nothing
\* on the downstream socket (so no Error is sent) and nothing on the upstream
\* connection, and leaves the session (ready flag, connection variable,
\* socket states, registration) as it was, whatever state the session is in.
C29_UnrecognisedIgnored ==
    \A i \in DOMAIN history :
        IsUnrecognised(history[i])
            => history[i].down = <<>> /\ history[i].up = <<>> /\ Unchanged(i)

\* C29 witness: a message without type was ignored before the upstream
\* opened and a message of type Ping while it was ready, and the session went
\* on: the next Speak was forwarded.
C29_Witness ==
    /\ \E h \in Runs : IsUnrecognised(h) /\ h.raw.type = "<undefined>" /\ ~h.ready
                       /\ h.down = <<>> /\ h.up = <<>>
    /\ \E i \in DOMAIN history :
          /\ IsUnrecognised(history[i]) /\ history[i].raw.type = "Ping" /\ history[i].ready
          /\ i < Len(history) /\ IsSpeak(history[i + 1]) /\ history[i + 1].up # <<>>
    /\ downCalls = <<SendJson("Open", "", "", "Connected to Deepgram TTS", {}, "OPEN")>>

----------------------------------------------------------------------------
\* Properties of the pass-through proxy session.

\* Close codes the mapping is computed for, besides those the upstream
\* delivers in the sessions of the model.
CodeSamples ==
    {0, 999, 1000, 1001, 1003, 1004, 1005, 1006, 1007, 1011, 1014, 1015, 1016,
     2999, 3000, 4999, 5000}

\* The code the client is to be closed with when the upstream closed with c.
MirroredCode(c) ==
    IF c \in 1000..4999 /\ c \notin {1004, 1005, 1006, 1015} THEN c ELSE 1000

\* C22: when the upstream socket closes with code c while the client socket
\* is open, the proxy's handler calls close on the client socket once, with
\* code c if c is in 1000..4999 and none of 1004, 1005, 1006, 1015, and with
\* 1000 otherwise (and with the reason it was given), and that is the only
\* close call of the session; the mapping closeCode computes is this one on
\* every sampled code.
C22_UpstreamCloseMirrored ==
    /\ \A h \in Runs :
          (h.ev = "up.close" /\ h.rs = "OPEN")
              => /\ h.down = <<CloseCall(MirroredCode(h.arg.code), h.arg.reason, "OPEN")>>
                 /\ NumCalls(downCalls, "close") = 1
    /\ \A c \in CodeSamples \cup UpstreamCloseCodes : closeCode(c) = MirroredCode(c)

\* C22 witness: after audio was relayed, the upstream closed with code 1011
\* and reason "bye" while the client was open, and the client was closed
\* with 1011 and "bye".
C22_Witness ==
    /\ Len(history) >= 4
    /\ \E h \in Runs : h.ev = "up.message" /\ h.arg.binary /\ h.down # <<>>
    /\ Last.ev = "up.close" /\ Last.rs = "OPEN" /\ Last.arg.code = 1011
    /\ Last.down = <<CloseCall(1011, "bye", "OPEN")>>
    /\ clientReadyState = "CLOSING"

\* A text message of type Error among the calls on the client socket.
IsErrorMessage(c) == c.op = "send" /\ ~c.binary /\ c.type = "Error"

\* C24 as stated: for every client message that arrives before the upstream
\* socket has opened, the proxy sends an Error message to the client.
C24_Original ==
    \A h \in Runs :
        (h.ev = "message" /\ h.ws = "CONNECTING")
            => \E i \in DOMAIN h.down : IsErrorMessage(h.down[i])

\* C25 as stated: when the upstream socket reports an error while the client
\* socket is open, the proxy sends the client an Error message, and no close
\* call it makes on the client socket from then on carries the code 1000.
C25_Original ==
    \A i \in DOMAIN history :
        (history[i].ev = "up.error" /\ history[i].rs = "OPEN")
            => /\ \E k \in DOMAIN history[i].down : IsErrorMessage(history[i].down[k])
               /\ \A j \in i..Len(history) :
                     \A k \in DOMAIN history[j].down :
                         history[j].down[k].op = "close" => history[j].down[k].ccode # 1000

\* C28 as stated: every Error message sent to the client has an error object
\* with a type, a code and a message.
C28_Original ==
    \A i \in DOMAIN downCalls :
        IsErrorMessage(downCalls[i])
            => downCalls[i].etype # "" /\ downCalls[i].code # "" /\ downCalls[i].body # ""

----------------------------------------------------------------------------
\* Properties of the upstream events in the relay and in its starter variant.

\* The Metadata event of a handler run.
MetadataOf(h) == CHOOSE d \in MetadataEvents : d.request_id = h.arg

\* C30 as stated: the handler of every upstream Open, Flushed and Close
\* event makes exactly one call on the downstream socket, the send of the
\* message of that type; that of a Cleared acknowledgement the send of a
\* Cleared message with the same sequence_id; and that of a Metadata event
\* the send of a Metadata message that carries, of the fields of the event,
\* request_id, model_name, model_version and model_uuid and no other.
C30_Original ==
    \A h \in Runs :
        /\ (h.ev \in {"Open", "Flushed", "Close"})
              => /\ Len(h.down) = 1 /\ h.up = <<>>
                 /\ h.down[1].op = "send" /\ ~h.down[1].binary /\ h.down[1].type = h.ev
        /\ (h.ev = "Unhandled" /\ h.arg = "Cleared")
              => /\ h.up = <<>>
                 /\ h.down = <<SendJson("Cleared", "", "", "",
                                         {<<"sequence_id", h.raw.text.v>>}, h.rs)>>
        /\ (h.ev = "Metadata")
              => /\ h.up = <<>>
                 /\ h.down = <<SendJson("Metadata", "", "", "",
                                         {<<f, MetadataOf(h)[f]>> :
                                            f \in {"request_id", "model_name", "model_version",
                                                   "model_uuid"} \cap DOMAIN MetadataOf(h)},
                                         h.rs)>>

----------------------------------------------------------------------------
\* Properties of the shutdown of the two servers.

Signalled == signals # <<>>

Exited == exitCode # "running"

\* What holds of the relay's process at every moment.
ShutdownSafety ==
    /\ \A k \in DOMAIN shutdowns : shutdowns[k].closed = shutdowns[k].active
    /\ Signalled => \A i \in activeConnections : wsState[i] # "OPEN"
    /\ (Signalled /\ ~Exited) => exitTimers >= 1
    /\ listening = "closed" <=> exitCode = "0"
    /\ exitCode = "1" => Signalled
    /\ exitCode = "0" => Signalled

\* C23: gracefulShutdown calls close on the client socket of every session
\* that is in activeConnections when the signal arrives, so that after a
\* signal no registered socket is open; the process exits with code 0 when,
\* and only when, the server has closed; while it has not exited after a
\* signal a forced-exit timer is pending; and after a signal the process
\* eventually exits, also when a second signal is delivered.
C23_GracefulShutdown == []ShutdownSafety /\ (Signalled ~> Exited)

\* C23 witness: two sockets were registered and open when SIGTERM arrived,
\* close was called on both, one of them did not close, SIGINT arrived too,
\* and the process was forced to exit.
C23_Witness ==
    /\ signals = <<"SIGTERM", "SIGINT">>
    /\ Cardinality(shutdowns[1].closed) = 2
    /\ \E i \in SocketIds : wsState[i] = "CLOSING"
    /\ \E i \in SocketIds : wsState[i] = "CLOSED"
    /\ exitCode = "1"

\* C26 as stated: after SIGTERM or SIGINT the proxy's process eventually
\* exits.
C26_Original == Signalled ~> Exited

----------------------------------------------------------------------------
\* Properties of the two legs of the pass-through proxy.

\* The client socket has emitted close or error.
ClientGone == \E i \in DOMAIN history : history[i].ev \in {"close", "error"}

\* The upstream socket is closed or on its way to it.
UpstreamEnding == deepgramWs \in {"CLOSING", "CLOSED"}

\* C31: in the proxy, once the client socket has closed or errored, the
\* upstream socket is eventually closed, whether it was still connecting or
\* already open at that moment.
C31_Original == (ProxySession /\ ClientGone) ~> UpstreamEnding

----------------------------------------------------------------------------
\* Properties of the cancelled generations of the browser client.

\* The socket new WebSocket made for generation g is sockets[g], and
\* generations[g] is what became of that generation.

\* The timer of handleCancel fires in this step and closes the socket it
\* finds in state.websocket.
TimerCloses == lastEvent'.kind = "timer" /\ websocket # 0

\* C32: the delayed close of handleCancel closes or nulls only the socket of
\* the cancelled generation, never the socket of a generation started after
\* the cancel.
C32_Original == [][TimerCloses => generations[websocket] = "cancelled"]_vars

\* The client has closed socket g or has begun to: close() was called on it
\* or its close event has fired.
SocketEnding(g) == g \in DOMAIN sockets /\ sockets[g].rs \in {"CLOSING", "CLOSED"}

\* C33: after handleCancel the socket of the cancelled generation is
\* eventually closed by the client, also when it was still connecting at the
\* moment of the cancel.
C33_Original == \A g \in 1..MaxGens : Cancelled(g) ~> SocketEnding(g)

----------------------------------------------------------------------------
\* Properties of the Speak message of the browser client.

\* C34: the client sends Speak on a socket only after that socket has
\* delivered an Open message, at most one Speak per generation, and the Speak
\* carries the non-empty text of the generation that owns the socket.
C34_Original ==
    \A i \in DOMAIN sockets :
        /\ Speaks(sockets, i) # {} => sockets[i].gotOpen
        /\ Cardinality(Speaks(sockets, i)) <= 1
        /\ \A k \in Speaks(sockets, i) : sockets[i].sent[k].text # <<>>

----------------------------------------------------------------------------
\* Properties of the order of the downstream messages.

\* What an upstream event is to the client: an audio frame with its bytes, or
\* the type of a text message.
AudioLabel(bytes) == <<"audio", bytes>>
TextLabel(type) == <<type, "">>

RelayedTypes == {"Open", "Metadata", "Flushed", "Cleared", "Close"}

\* The message the upstream event of run h stands for, if any: in the relay
\* the SDK event, in the proxy the frame of the upstream socket.
Caused(h) ==
    IF h.rs # "OPEN" THEN <<>>
    ELSE IF h.ev = "up.message"
    THEN (IF h.arg.binary THEN <<AudioLabel(h.arg.body)>>
          ELSE IF h.arg.type \in RelayedTypes THEN <<TextLabel(h.arg.type)>> ELSE <<>>)
    ELSE IF h.ev = "Audio" THEN <<AudioLabel(h.arg)>>
    ELSE IF h.ev \in {"Open", "Metadata", "Flushed", "Close"} THEN <<TextLabel(h.ev)>>
    ELSE IF h.ev = "Unhandled" /\ h.arg = "Cleared" THEN <<TextLabel("Cleared")>>
    ELSE <<>>

\* The upstream events so far, oldest first.
RECURSIVE Emitted(_)
Emitted(hs) == IF hs = <<>> THEN <<>> ELSE Caused(Head(hs)) \o Emitted(Tail(hs))

\* The audio frames and relayed text messages transmitted to the client,
\* in the order of their transmission.
RECURSIVE Delivered(_)
Delivered(calls) ==
    IF calls = <<>> THEN <<>>
    ELSE LET c == Head(calls) IN
         (IF c.op = "send" /\ c.rs = "OPEN" /\ c.binary THEN <<AudioLabel(c.body)>>
          ELSE IF c.op = "send" /\ c.rs = "OPEN" /\ c.type \in RelayedTypes
          THEN <<TextLabel(c.type)>>
          ELSE <<>>)
             \o Delivered(Tail(calls))

\* C35: the downstream messages are transmitted in exactly the order of the
\* upstream events that caused them: audio frames keep their order, and
\* every audio frame emitted before Flushed is sent before the Flushed
\* message.
C35_OrderKept == Delivered(downCalls) = Emitted(history)

\* C35 witness: two different audio frames and then Flushed were emitted and
\* transmitted, with the Flushed message last.
C35_Witness ==
    /\ \E i, j, k \in DOMAIN history :
          /\ i < j /\ j < k
          /\ history[i].ev = "Audio" /\ history[j].ev = "Audio" /\ history[k].ev = "Flushed"
          /\ history[i].arg # history[j].arg
          /\ history[k].rs = "OPEN"
    /\ Len(Delivered(downCalls)) >= 3
    /\ Delivered(downCalls)[Len(Delivered(downCalls))] = TextLabel("Flushed")

----------------------------------------------------------------------------
\* Properties of the chunk list of the browser client.

\* This step appends a chunk to state.currentGeneration.audioChunks.
ChunkAppended ==
    Len(currentGeneration'.audioChunks) > Len(currentGeneration.audioChunks)

\* C36: a chunk is appended only while the generation it is appended to is
\* generating (not completed, failed or cancelled), and only when it was
\* received on the socket of that generation.
C36_Original ==
    [][ChunkAppended
          => /\ generations[Len(generations)] = "generating"
             /\ lastEvent'.ws = Len(generations)]_vars

----------------------------------------------------------------------------
\* Properties of the ready flag and of the registry of the relay.

\* The upstream Open event has been handled.
Opened == \E i \in DOMAIN history : history[i].ev = "Open"

\* The relay has asked the upstream connection to close.
CloseRequested == \E i \in DOMAIN upCalls : upCalls[i].op = "requestClose"

\* C37: isConnectionReady is false until the upstream Open event, and it is
\* true only if the upstream connection is open, has not reported an error
\* and has not been requested to close.
C37_Original ==
    /\ ~Opened => ~isConnectionReady
    /\ isConnectionReady => (dgState = "open" /\ ~CloseRequested)

\* The connection handler has run for the client socket.
Accepted == \E i \in DOMAIN history : history[i].ev = "connection"

\* The client socket has emitted close or error.
Disconnected == \E i \in DOMAIN history : history[i].ev \in {"close", "error"}

\* C38: activeConnections holds exactly the sockets that were accepted and
\* have since neither emitted close or error nor failed the upstream
\* handshake; no closed socket stays registered.
C38_Original ==
    /\ ClientWs \in activeConnections
          <=> /\ Accepted
              /\ ~Disconnected
              /\ ~\E i \in DOMAIN history : HandshakeFailed(history[i])
    /\ clientReadyState = "CLOSED" => ClientWs \notin activeConnections

----------------------------------------------------------------------------
\* Properties of the generation queue of the browser client.

\* The ids of the items of q, first to last.
Ids(q) == [k \in DOMAIN q |-> q[k].id]

\* q without its k-th item.
RemoveIndex(q, k) == SubSeq(q, 1, k - 1) \o SubSeq(q, k + 1, Len(q))

\* Newest first: the ids decrease strictly (and so are unique).
NewestFirst(q) == \A k \in 1..(Len(q) - 1) : q[k].id > q[k + 1].id

\* removeQueueItem(id) takes out the item with that id, keeps the others in
\* their order, and touches nothing else; with an id no item has it changes
\* nothing.
RemovesExactly(id) ==
    LET st == removeQueueItem(Pack, id) IN
    /\ st = [Pack EXCEPT !.queue = st.queue]
    /\ \A k \in DOMAIN queue : queue[k].id = id => st.queue = RemoveIndex(queue, k)
    /\ (\A k \in DOMAIN queue : queue[k].id # id) => st.queue = queue

\* The three ways the queue changes in a step: a new item with the next id
\* is put in front when Flushed is handled; one item is removed by its
\* id; all items are cleared.
PushFront ==
    /\ lastEvent'.kind = "json" /\ lastEvent'.type = "Flushed"
    /\ Len(queue') = Len(queue) + 1
    /\ Tail(queue') = queue
    /\ Head(queue').id = nextId /\ nextId' = nextId + 1

RemoveById ==
    /\ lastEvent'.kind = "remove"
    /\ \E k \in DOMAIN queue : queue' = RemoveIndex(queue, k)

ClearAll == lastEvent'.kind = "clear" /\ queue' = <<>>

\* C39: the queue changes only by push-front on completion, remove-by-id
\* and clear-all; its ids are unique and strictly decreasing from the front;
\* and removeQueueItem(id) removes exactly the item with that id and leaves
\* the others in their order.
C39_QueueDiscipline ==
    /\ [](NewestFirst(queue) /\ \A id \in 0..(MaxQueueItems + 1) : RemovesExactly(id))
    /\ [][queue' # queue => (PushFront \/ RemoveById \/ ClearAll)]_vars

\* C39 witness: three items were queued and the middle one was removed: the
\* newest and the oldest are left, in that order.
C39_Witness ==
    /\ lastEvent.kind = "remove"
    /\ Ids(queue) = <<3, 1>>

====
